---------------------------- MODULE Spec2Model ----------------------------
(***************************************************************************)
(* A model of the appliance classifier, the capability-state resolver and  *)
(* the binary-sensor state mappers of custom_components/alexa_media.       *)
(*                                                                         *)
(* Python values are tagged tuples of strings, so that any two of them can *)
(* be compared: None is <<"NoneType">>, the string s is <<"str", s>>, True *)
(* and False are <<"bool", "True">> and <<"bool", "False">>, and the dict  *)
(* {k: "v"} is <<"dict", k, "v">>.  A dict with optional keys (a           *)
(* capability-state record, an appliance) is a TLA+ function whose DOMAIN  *)
(* is the set of keys present.  Strings the code takes apart (timestamps,  *)
(* appliance ids) are sequences of one-character strings.                  *)
(***************************************************************************)
EXTENDS Integers, Sequences, FiniteSets, TLC

VARIABLES
    coordinator_data,   \* coordinator.data, the capability-state snapshot
    query,              \* arguments of the last parse_value_from_coordinator call
    result,             \* outcome of that call
    sensor,             \* the binary-sensor entity under observation
    attr_is_on,         \* its _attr_is_on
    last_call,          \* the last method run on it, with what it resolved
    last_reading,       \* history: its most recent non-absent detection reading
    network_details,    \* argument of the last parse_alexa_entities call
    entities,           \* outcome of that call
    helper              \* the running call of a function of helpers.py

vars == <<coordinator_data, query, result, sensor, attr_is_on, last_call,
          last_reading, network_details, entities, helper>>

---------------------------------------------------------------------------
(* Bounds of the model *)

\* longest capability-state list of one entity in a resolver snapshot
MaxRecords == 2

\* most appliances in a network graph
MaxAppliances == 2

---------------------------------------------------------------------------
(* Python values and outcomes *)

PyNone == <<"NoneType">>
PyStr(s) == <<"str", s>>
PyTrue == <<"bool", "True">>
PyFalse == <<"bool", "False">>
PyBool(b) == IF b THEN PyTrue ELSE PyFalse
PyDict1(k, v) == <<"dict", k, v>>

IsNone(v) == v = PyNone
IsStr(v) == v[1] = "str"
IsDict(v) == v[1] = "dict"

\* dict.get(key): the value, or None when the key is missing
Get(d, key) == IF key \in DOMAIN d THEN d[key] ELSE PyNone

\* Python truthiness of None, of a bool and of a string held as a
\* character sequence
Truthy(v) ==
    /\ ~IsNone(v)
    /\ v # PyFalse
    /\ IsStr(v) => v[2] # <<>>

Ret(v) == [kind |-> "return", value |-> v]
Raise(e) == [kind |-> "raise", exc |-> e]
IsRet(o) == o.kind = "return"
IsRaise(o) == o.kind = "raise"
Idle == [kind |-> "idle"]

---------------------------------------------------------------------------
(* datetime.strptime(s, "%Y-%m-%dT%H:%M:%S.%f%z") and aware-datetime order *)
(* An instant is [day, sec, us]: the proleptic ordinal of the UTC day, the *)
(* second of that day and the microsecond of that second.                  *)

DigitChars == <<"0", "1", "2", "3", "4", "5", "6", "7", "8", "9">>
IsDigit(c) == \E i \in 1..10 : DigitChars[i] = c
DigitVal(c) == (CHOOSE i \in 1..10 : DigitChars[i] = c) - 1

RECURSIVE ToInt(_)
ToInt(s) ==
    IF s = <<>> THEN 0
    ELSE 10 * ToInt(SubSeq(s, 1, Len(s) - 1)) + DigitVal(s[Len(s)])

\* how many of the characters of s from position p on are digits, at most max
DigitRun(s, p, max) ==
    CHOOSE n \in 0..max :
        /\ \A i \in p..(p + n - 1) : i <= Len(s) /\ IsDigit(s[i])
        /\ (n = max \/ p + n > Len(s) \/ ~IsDigit(s[p + n]))

CharAt(s, p) == IF p >= 1 /\ p <= Len(s) THEN s[p] ELSE ""

NoMatch == [ok |-> FALSE]

\* a numeric directive: the regex alternatives take the longest run of at
\* most max digits, and the value must lie in lo..hi
NumRun(s, p, n, v, lo, hi) ==
    IF n >= 1 /\ v >= lo /\ v <= hi
    THEN [ok |-> TRUE, val |-> v, next |-> p + n]
    ELSE NoMatch
NumDigits(s, p, n, lo, hi) == NumRun(s, p, n, ToInt(SubSeq(s, p, p + n - 1)), lo, hi)
NumField(s, p, max, lo, hi) == NumDigits(s, p, DigitRun(s, p, max), lo, hi)

\* %Y is exactly four digits
YearField(s, p) ==
    IF DigitRun(s, p, 4) = 4
    THEN [ok |-> TRUE, val |-> ToInt(SubSeq(s, p, p + 3)), next |-> p + 4]
    ELSE NoMatch

\* %d also takes a space-padded single digit
DayField(s, p) ==
    IF CharAt(s, p) = " "
    THEN NumField(s, p + 1, 1, 1, 9)
    ELSE NumField(s, p, 2, 1, 31)

\* %f is one to six digits, read as a decimal fraction of a second
FracDigits(s, p, n) ==
    IF n >= 1
    THEN [ok |-> TRUE,
          val |-> ToInt(SubSeq(s, p, p + n - 1) \o [i \in 1..(6 - n) |-> "0"]),
          next |-> p + n]
    ELSE NoMatch
FracField(s, p) == FracDigits(s, p, DigitRun(s, p, 6))

\* %z is "Z" (upper case only) or [+-]HH[:]MM[[:]SS[.ffffff]]; val is the
\* offset in seconds and frac its microseconds, both signed.  Seconds take a
\* colon exactly when the minutes did.
ZoneFraction(s, t, sign, secs) ==
    IF CharAt(s, t) = "." /\ DigitRun(s, t + 1, 6) >= 1
    THEN [ok |-> TRUE, val |-> sign * secs,
          frac |-> sign * FracField(s, t + 1).val,
          next |-> t + 1 + DigitRun(s, t + 1, 6)]
    ELSE [ok |-> TRUE, val |-> sign * secs, frac |-> 0, next |-> t]
ZoneSecondsAt(s, r, sign, secs) ==
    IF DigitRun(s, r, 2) = 2 /\ ToInt(SubSeq(s, r, r + 1)) <= 59
    THEN ZoneFraction(s, r + 2, sign, secs + ToInt(SubSeq(s, r, r + 1)))
    ELSE NoMatch
ZoneSeconds(s, colon, r, sign, secs) ==
    IF r > Len(s) THEN [ok |-> TRUE, val |-> sign * secs, frac |-> 0, next |-> r]
    ELSE IF colon /\ CharAt(s, r) = ":" THEN ZoneSecondsAt(s, r + 1, sign, secs)
    ELSE IF ~colon THEN ZoneSecondsAt(s, r, sign, secs)
    ELSE NoMatch
ZoneMinutes(s, colon, q, sign, hh) ==
    IF DigitRun(s, q, 2) = 2 /\ ToInt(SubSeq(s, q, q + 1)) <= 59
    THEN ZoneSeconds(s, colon, q + 2, sign,
                     hh * 3600 + ToInt(SubSeq(s, q, q + 1)) * 60)
    ELSE NoMatch
ZoneField(s, p) ==
    IF CharAt(s, p) = "Z" THEN [ok |-> TRUE, val |-> 0, frac |-> 0, next |-> p + 1]
    ELSE IF CharAt(s, p) \in {"+", "-"} /\ DigitRun(s, p + 1, 2) = 2
    THEN ZoneMinutes(s, CharAt(s, p + 3) = ":",
                     IF CharAt(s, p + 3) = ":" THEN p + 4 ELSE p + 3,
                     IF s[p] = "-" THEN -1 ELSE 1,
                     ToInt(SubSeq(s, p + 1, p + 2)))
    ELSE NoMatch

\* a literal of the format; the format's regex ignores case
Lit(s, p, cs) == CharAt(s, p) \in cs

IsLeap(y) == y % 4 = 0 /\ (y % 100 # 0 \/ y % 400 = 0)
DaysInMonth(y, m) ==
    IF m = 2 THEN (IF IsLeap(y) THEN 29 ELSE 28)
    ELSE IF m \in {4, 6, 9, 11} THEN 30 ELSE 31

RECURSIVE DaysBeforeMonth(_, _)
DaysBeforeMonth(y, m) ==
    IF m = 1 THEN 0 ELSE DaysBeforeMonth(y, m - 1) + DaysInMonth(y, m - 1)

\* date.toordinal()
DaysBeforeYear(y) ==
    (y - 1) * 365 + ((y - 1) \div 4) - ((y - 1) \div 100) + ((y - 1) \div 400)
Ordinal(y, m, d) == DaysBeforeYear(y) + DaysBeforeMonth(y, m) + d

SecondsPerDay == 24 * 60 * 60

\* the UTC instant of a wall-clock time at a UTC offset
InstantAt(day, secs, us) ==
    [day |-> day + (secs \div SecondsPerDay), sec |-> secs % SecondsPerDay,
     us |-> us]
Instant(day, secs, us) ==
    InstantAt(day, secs + (us \div 1000000), us % 1000000)

ValueError == [ok |-> FALSE, exc |-> "ValueError"]

\* the directives in the order of the format; each step is handed the
\* fields read so far and the match of the next one
strptime_done(s, Y, m, d, H, M, S, f, z) ==
    IF ~z.ok THEN ValueError                         \* does not match format
    ELSE IF z.next # Len(s) + 1 THEN ValueError      \* unconverted data remains
    ELSE IF Y < 1 THEN ValueError                    \* year 0 is out of range
    ELSE IF d > DaysInMonth(Y, m) THEN ValueError    \* day is out of range
    ELSE IF S > 59 THEN ValueError                   \* second must be in 0..59
    ELSE IF z.val >= SecondsPerDay \/ z.val <= -SecondsPerDay THEN ValueError
    ELSE [ok |-> TRUE,
          t |-> Instant(Ordinal(Y, m, d), H * 3600 + M * 60 + S - z.val,
                        f - z.frac)]

strptime_zone(s, Y, m, d, H, M, S, f) ==
    IF f.ok
    THEN strptime_done(s, Y, m, d, H, M, S, f.val, ZoneField(s, f.next))
    ELSE ValueError

strptime_fraction(s, Y, m, d, H, M, S) ==
    IF S.ok /\ Lit(s, S.next, {"."})
    THEN strptime_zone(s, Y, m, d, H, M, S.val, FracField(s, S.next + 1))
    ELSE ValueError

strptime_second(s, Y, m, d, H, M) ==
    IF M.ok /\ Lit(s, M.next, {":"})
    THEN strptime_fraction(s, Y, m, d, H, M.val, NumField(s, M.next + 1, 2, 0, 61))
    ELSE ValueError

strptime_minute(s, Y, m, d, H) ==
    IF H.ok /\ Lit(s, H.next, {":"})
    THEN strptime_second(s, Y, m, d, H.val, NumField(s, H.next + 1, 2, 0, 59))
    ELSE ValueError

strptime_hour(s, Y, m, d) ==
    IF d.ok /\ Lit(s, d.next, {"T", "t"})
    THEN strptime_minute(s, Y, m, d.val, NumField(s, d.next + 1, 2, 0, 23))
    ELSE ValueError

strptime_day(s, Y, m) ==
    IF m.ok /\ Lit(s, m.next, {"-"})
    THEN strptime_hour(s, Y, m.val, DayField(s, m.next + 1))
    ELSE ValueError

strptime_month(s, Y) ==
    IF Y.ok /\ Lit(s, Y.next, {"-"})
    THEN strptime_day(s, Y.val, NumField(s, Y.next + 1, 2, 1, 12))
    ELSE ValueError

strptime(s) == strptime_month(s, YearField(s, 1))

\* mutant: the comparison made strict
DatetimeGE_strict(a, b) ==
    \/ a.day > b.day
    \/ a.day = b.day /\ a.sec > b.sec
    \/ a.day = b.day /\ a.sec = b.sec /\ a.us > b.us

\* a >= b for two aware datetimes
DatetimeGE(a, b) ==
    \/ a.day > b.day
    \/ a.day = b.day /\ a.sec > b.sec
    \/ a.day = b.day /\ a.sec = b.sec /\ a.us >= b.us

---------------------------------------------------------------------------
(* The capability-state resolver *)

NoData == [t |-> "NoneType"]
DictData(f) == [t |-> "dict", d |-> f]

\* a capability state still usable given its age; since is None or an
\* aware datetime, as the callers give it
\* mutant: the ValueError of strptime is not caught
sample_not_older_uncaught(time_of_sample, since) ==
    IF time_of_sample.ok
    THEN Ret(DatetimeGE(time_of_sample.t, since[2]))
    ELSE Raise("ValueError")

sample_not_older(time_of_sample, since) ==
    IF time_of_sample.ok
    THEN Ret(DatetimeGE(time_of_sample.t, since[2]))
    ELSE Ret(TRUE)                                   \* except ValueError: pass

sample_acceptable(formatted_time_of_sample, since) ==
    IF ~Truthy(formatted_time_of_sample) THEN Ret(TRUE)
    \* strptime() argument 1 must be str
    ELSE IF ~IsStr(formatted_time_of_sample) THEN Raise("TypeError")
    ELSE sample_not_older(strptime(formatted_time_of_sample[2]), since)

is_cap_state_still_acceptable(cap_state, since) ==
    IF ~IsNone(since)
    THEN sample_acceptable(Get(cap_state, "timeOfSample"), since)
    ELSE Ret(TRUE)

\* mutant: the instance filter is dropped
cap_state_matches_any_instance(cap_state, namespace, name, instance) ==
    /\ Get(cap_state, "namespace") = namespace
    /\ Get(cap_state, "name") = name

\* the condition of the resolver's loop body
cap_state_matches(cap_state, namespace, name, instance) ==
    /\ Get(cap_state, "namespace") = namespace
    /\ Get(cap_state, "name") = name
    /\ (Get(cap_state, "instance") = instance \/ IsNone(instance))

\* mutant: a stale match is skipped and the scan goes on
RECURSIVE scan_cap_states_skip_stale(_, _, _, _, _)
scan_cap_states_skip_stale(cap_states, namespace, name, since, instance) ==
    IF cap_states = <<>> THEN Ret(PyNone)
    ELSE IF /\ cap_state_matches(Head(cap_states), namespace, name, instance)
            /\ is_cap_state_still_acceptable(Head(cap_states), since).value
    THEN Ret(Get(Head(cap_states), "value"))
    ELSE scan_cap_states_skip_stale(Tail(cap_states), namespace, name, since,
                                    instance)

\* the body of the loop for a matching record: both branches return
matched_cap_state(cap_state, ok) ==
    IF IsRaise(ok) THEN ok
    ELSE IF ok.value THEN Ret(Get(cap_state, "value"))
    ELSE Ret(PyNone)

RECURSIVE scan_cap_states(_, _, _, _, _)
scan_cap_states(cap_states, namespace, name, since, instance) ==
    IF cap_states = <<>> THEN Ret(PyNone)
    ELSE IF cap_state_matches(Head(cap_states), namespace, name, instance)
    THEN matched_cap_state(Head(cap_states),
                           is_cap_state_still_acceptable(Head(cap_states), since))
    ELSE scan_cap_states(Tail(cap_states), namespace, name, since, instance)

\* mutant: only the truth of coordinator.data is tested
has_entity_data_any(data, entity_id) ==
    /\ data.t = "dict"
    /\ DOMAIN data.d # {}

\* coordinator.data and entity_id in coordinator.data
has_entity_data(data, entity_id) ==
    /\ data.t = "dict"
    /\ DOMAIN data.d # {}
    /\ entity_id \in DOMAIN data.d

\* coordinator.data[entity_id]
entity_cap_states(data, entity_id) ==
    IF data.t = "dict" /\ entity_id \in DOMAIN data.d
    THEN Ret(data.d[entity_id])
    ELSE IF data.t = "dict" THEN Raise("KeyError") ELSE Raise("TypeError")

parse_value_from_coordinator(data, entity_id, namespace, name, since, instance) ==
    IF ~has_entity_data(data, entity_id) THEN Ret(PyNone)
    ELSE IF IsRaise(entity_cap_states(data, entity_id))
    THEN entity_cap_states(data, entity_id)
    ELSE scan_cap_states(entity_cap_states(data, entity_id).value, namespace,
                         name, since, instance)

---------------------------------------------------------------------------
(* What a call leaves of the snapshot it was given.  The resolver reaches  *)
(* coordinator.data through its truth value, "in", subscripts, iteration   *)
(* and dict.get, and it reaches the records the loop visits before it      *)
(* returns; the later records are not touched.                             *)

\* mutant: d.pop(key, None) in place of d.get(key)
dict_after_pop(d, key) == [k \in DOMAIN d \ {key} |-> d[k]]

\* the dict after d.get(key)
dict_after_get(d, key) == d

\* the record after is_cap_state_still_acceptable(cap_state, since)
cap_state_after_acceptable(cap_state, since) ==
    IF ~IsNone(since) THEN dict_after_get(cap_state, "timeOfSample")
    ELSE cap_state

\* the record after the condition of the loop body, which reads name only
\* when namespace is equal, and instance only when name is equal too
cap_state_after_matches(cap_state, namespace, name) ==
    IF Get(cap_state, "namespace") # namespace
    THEN dict_after_get(cap_state, "namespace")
    ELSE IF Get(cap_state, "name") # name
    THEN dict_after_get(dict_after_get(cap_state, "namespace"), "name")
    ELSE dict_after_get(
             dict_after_get(dict_after_get(cap_state, "namespace"), "name"),
             "instance")

\* the record after the loop body for a match: the age test, and
\* cap_state.get("value") when it passed
cap_state_after_matched(cap_state, since) ==
    IF /\ IsRet(is_cap_state_still_acceptable(cap_state, since))
       /\ is_cap_state_still_acceptable(cap_state, since).value
    THEN dict_after_get(cap_state_after_acceptable(cap_state, since), "value")
    ELSE cap_state_after_acceptable(cap_state, since)

\* the list after the loop: the records up to the first match are visited
RECURSIVE cap_states_after_scan(_, _, _, _, _)
cap_states_after_scan(cap_states, namespace, name, since, instance) ==
    IF cap_states = <<>> THEN <<>>
    ELSE IF cap_state_matches(Head(cap_states), namespace, name, instance)
    THEN <<cap_state_after_matched(
              cap_state_after_matches(Head(cap_states), namespace, name),
              since)>>
            \o Tail(cap_states)
    ELSE <<cap_state_after_matches(Head(cap_states), namespace, name)>>
            \o cap_states_after_scan(Tail(cap_states), namespace, name, since,
                                     instance)

\* coordinator.data after "coordinator.data and entity_id in
\* coordinator.data": neither the truth test nor "in" inserts a key
data_after_has_entity_data(data, entity_id) == data

\* coordinator.data after parse_value_from_coordinator
data_after_parse_value(data, entity_id, namespace, name, since, instance) ==
    IF ~has_entity_data(data, entity_id)
    THEN data_after_has_entity_data(data, entity_id)
    ELSE DictData([data_after_has_entity_data(data, entity_id).d
                     EXCEPT ![entity_id] =
                        cap_states_after_scan(@, namespace, name, since,
                                              instance)])


---------------------------------------------------------------------------
(* The derived resolvers the binary sensors use *)

parse_detection_state_from_coordinator(data, entity_id, namespace) ==
    parse_value_from_coordinator(data, entity_id, PyStr(namespace),
                                 PyStr("detectionState"), PyNone, PyNone)

\* a dict with a "value" key is unwrapped, any other value is returned as is
unwrap_acoustic_value(resolved) ==
    IF IsRaise(resolved) THEN resolved
    ELSE IF IsNone(resolved.value) THEN Ret(PyNone)
    ELSE IF IsDict(resolved.value) /\ resolved.value[2] = "value"
    THEN Ret(PyStr(resolved.value[3]))
    ELSE Ret(resolved.value)

parse_acoustic_event_from_coordinator(data, entity_id, detection_mode) ==
    unwrap_acoustic_value(
        parse_value_from_coordinator(data, entity_id,
            PyStr("Alexa.AcousticEventSensor"), PyStr(detection_mode),
            PyNone, PyNone))

---------------------------------------------------------------------------
(* The binary sensors.  An entity is [class, alexa_entity_id]; a method    *)
(* yields [attr, outcome]: the entity's _attr_is_on after it, and what it  *)
(* returned or raised.                                                     *)

detection_state_key ==
    [BabyCrySensor |-> "babyCryDetectionState",
     BeepingApplianceSensor |-> "beepingApplianceDetectionState",
     CarbonMonoxideSirenSensor |-> "carbonMonoxideSirenDetectionState",
     CoughSensor |-> "coughDetectionState",
     DogBarkSensor |-> "dogBarkDetectionState",
     GlassBreakSensor |-> "glassBreakDetectionState",
     HumanPresenceSensor |-> "humanPresenceDetectionState",
     RunningWaterSensor |-> "runningWaterDetectionState",
     SmokeAlarmSensor |-> "smokeAlarmDetectionState",
     SmokeSirenSensor |-> "smokeSirenDetectionState",
     SnoreSensor |-> "snoreDetectionState",
     WaterSoundsSensor |-> "waterSoundsDetectionState"]

AcousticEventSensors == DOMAIN detection_state_key
MotionSensors == {"MotionSensor", "AlexaMotion"}
ContactSensors == {"ContactSensor", "AlexaContact"}
SensorClasses == AcousticEventSensors \cup MotionSensors \cup ContactSensors

Effect(attr, outcome) == [attr |-> attr, outcome |-> outcome]

\* what each class resolves as its detection state
resolve_detection_state(class, data, entity_id) ==
    IF class \in AcousticEventSensors
    THEN parse_acoustic_event_from_coordinator(data, entity_id,
                                               detection_state_key[class])
    ELSE IF class \in MotionSensors
    THEN parse_detection_state_from_coordinator(data, entity_id,
                                                "Alexa.MotionSensor")
    ELSE parse_detection_state_from_coordinator(data, entity_id,
                                                "Alexa.ContactSensor")

\* coordinator.data after the class has resolved its detection state; the
\* acoustic resolver also tests "value" in value and reads value["value"]
\* on the value it was returned
data_after_resolve(class, data, entity_id) ==
    IF class \in AcousticEventSensors
    THEN data_after_parse_value(data, entity_id,
                                PyStr("Alexa.AcousticEventSensor"),
                                PyStr(detection_state_key[class]),
                                PyNone, PyNone)
    ELSE IF class \in MotionSensors
    THEN data_after_parse_value(data, entity_id, PyStr("Alexa.MotionSensor"),
                                PyStr("detectionState"), PyNone, PyNone)
    ELSE data_after_parse_value(data, entity_id, PyStr("Alexa.ContactSensor"),
                                PyStr("detectionState"), PyNone, PyNone)

\* MotionSensor._get_detection_state, AcousticEventSensorBase._get_detection_state
get_detection_state(detection_state) ==
    PyBool(detection_state = PyStr("DETECTED"))

\* AlexaMotion._get_detection_state
AlexaMotion_get_detection_state(detection_state) ==
    IF ~IsNone(detection_state)
    THEN PyBool(detection_state = PyStr("DETECTED"))
    ELSE PyNone

\* __init__ of the classes that keep _attr_is_on; the contact sensors leave
\* the entity's default, None
sensor_init(class, resolved) ==
    IF class \in ContactSensors THEN Effect(PyNone, Ret(PyNone))
    ELSE IF IsRaise(resolved) THEN Effect(PyNone, resolved)
    ELSE IF class = "AlexaMotion"
    THEN Effect(AlexaMotion_get_detection_state(resolved.value), Ret(PyNone))
    ELSE Effect(get_detection_state(resolved.value), Ret(PyNone))

\* mutant: an absent detection state falls through to the mapping
MotionSensor_handle_coordinator_update_no_guard(attr, resolved) ==
    IF IsRaise(resolved) THEN Effect(attr, resolved)
    ELSE IF resolved.value \notin {PyStr("DETECTED"), PyStr("NOT_DETECTED")}
    THEN Effect(PyFalse, Ret(PyNone))
    ELSE Effect(get_detection_state(resolved.value), Ret(PyNone))

\* mutant: an unexpected value is left unmapped
MotionSensor_handle_coordinator_update_keep(attr, resolved) ==
    IF IsRaise(resolved) THEN Effect(attr, resolved)
    ELSE IF IsNone(resolved.value) THEN Effect(attr, Ret(PyNone))
    ELSE IF resolved.value \notin {PyStr("DETECTED"), PyStr("NOT_DETECTED")}
    THEN Effect(attr, Ret(PyNone))
    ELSE Effect(get_detection_state(resolved.value), Ret(PyNone))

MotionSensor_handle_coordinator_update(attr, resolved) ==
    IF IsRaise(resolved) THEN Effect(attr, resolved)
    ELSE IF IsNone(resolved.value) THEN Effect(attr, Ret(PyNone))
    ELSE IF resolved.value \notin {PyStr("DETECTED"), PyStr("NOT_DETECTED")}
    THEN Effect(PyFalse, Ret(PyNone))
    ELSE Effect(get_detection_state(resolved.value), Ret(PyNone))

\* self.__name__ on an entity: instances have no such attribute (only their
\* classes do), so the lookup raises
instance_dunder_name(class) == Raise("AttributeError")

\* AcousticEventSensorBase._handle_coordinator_update: the debug call's
\* arguments are evaluated before anything is assigned
AcousticEventSensorBase_handle_coordinator_update(class, attr, resolved) ==
    IF detection_state_key[class] = "" THEN Effect(attr, Ret(PyNone))
    ELSE IF IsRaise(resolved) THEN Effect(attr, resolved)
    ELSE IF IsNone(resolved.value) THEN Effect(attr, Ret(PyNone))
    ELSE IF IsRaise(instance_dunder_name(class))
    THEN Effect(attr, instance_dunder_name(class))
    ELSE IF resolved.value \notin {PyStr("DETECTED"), PyStr("NOT_DETECTED")}
    THEN Effect(PyFalse, Ret(PyNone))
    ELSE Effect(get_detection_state(resolved.value), Ret(PyNone))

AlexaMotion_handle_coordinator_update(attr, resolved) ==
    IF IsRaise(resolved) THEN Effect(attr, resolved)
    ELSE Effect(AlexaMotion_get_detection_state(resolved.value), Ret(PyNone))

\* the contact sensors inherit the coordinator entity's handler, which
\* only writes the state out
handle_coordinator_update(class, attr, resolved) ==
    IF class \in AcousticEventSensors
    THEN AcousticEventSensorBase_handle_coordinator_update(class, attr, resolved)
    ELSE IF class = "MotionSensor"
    THEN MotionSensor_handle_coordinator_update(attr, resolved)
    ELSE IF class = "AlexaMotion"
    THEN AlexaMotion_handle_coordinator_update(attr, resolved)
    ELSE Effect(attr, Ret(PyNone))

\* the is_on property: MotionSensor and the acoustic sensors report
\* _attr_is_on, the others resolve the state again
is_on(class, attr, resolved) ==
    IF class \in AcousticEventSensors \cup {"MotionSensor"} THEN Ret(attr)
    ELSE IF IsRaise(resolved) THEN resolved
    ELSE IF class = "ContactSensor"
    THEN Ret(PyBool(resolved.value = PyStr("DETECTED")))
    ELSE IF ~IsNone(resolved.value)
    THEN Ret(PyBool(resolved.value = PyStr("DETECTED")))
    ELSE Ret(PyNone)

\* coordinator.data after the is_on property, which resolves the state
\* only in the classes that do not report _attr_is_on
data_after_is_on(class, data, entity_id) ==
    IF class \in AcousticEventSensors \cup {"MotionSensor"} THEN data
    ELSE data_after_resolve(class, data, entity_id)

\* mutant: only a missing snapshot counts, not a missing entry
assumed_state_without_snapshot(data, entity_id) ==
    Ret(PyBool(data.t = "NoneType"))

\* the assumed_state property of the contact sensors
assumed_state(data, entity_id) == Ret(PyBool(~has_entity_data(data, entity_id)))

---------------------------------------------------------------------------
(* The appliance classifier.  An appliance is a function from the keys it  *)
(* carries to their values: applianceId a character sequence, entityId,    *)
(* friendlyName, manufacturerName, modelName, friendlyDescription,         *)
(* customerDefinedDeviceType and connectedVia strings, applianceTypes a    *)
(* sequence of strings, driverIdentity, aliases, alexaDeviceIdentifierList *)
(* and capabilities as the code reads them.  A capability carries          *)
(* interfaceName and, optionally, properties (retrievable,                 *)
(* proactivelyReported, supported: a sequence of property names),          *)
(* instance, resources and configuration.                                  *)

Has(d, key) == key \in DOMAIN d

\* d.get(key) == v
FieldIs(d, key, v) == Has(d, key) /\ d[key] = v

\* d[key], which raises KeyError when the key is missing
Index(d, key) == IF Has(d, key) THEN Ret(d[key]) ELSE Raise("KeyError")
IndexIs(d, key, v) == IF Has(d, key) THEN Ret(d[key] = v) ELSE Raise("KeyError")

\* Python's short-circuit "and", "or" and "not" over outcomes
AndThen(a, b) == IF IsRaise(a) THEN a ELSE IF a.value THEN b ELSE Ret(FALSE)
OrElse(a, b) == IF IsRaise(a) THEN a ELSE IF a.value THEN Ret(TRUE) ELSE b
Holds(o) == IsRet(o) /\ o.value

\* t in appliance.get("applianceTypes", [])
InTypes(appliance, t) ==
    /\ Has(appliance, "applianceTypes")
    /\ \E i \in 1..Len(appliance["applianceTypes"]) :
          appliance["applianceTypes"][i] = t

\* capability_offers without the test of the two flags
capability_offers_any_flags(cap, interface_name, property_name) ==
    /\ cap["interfaceName"] = interface_name
    /\ Has(cap, "properties")
    /\ \E i \in 1..Len(cap["properties"]["supported"]) :
          cap["properties"]["supported"][i] = property_name

capability_offers(cap, interface_name, property_name) ==
    /\ cap["interfaceName"] = interface_name
    /\ Has(cap, "properties")
    /\ cap["properties"]["retrievable"] \/ cap["properties"]["proactivelyReported"]
    /\ \E i \in 1..Len(cap["properties"]["supported"]) :
          cap["properties"]["supported"][i] = property_name

has_capability(appliance, interface_name, property_name) ==
    IF ~Has(appliance, "capabilities") THEN Raise("KeyError")
    ELSE Ret(\E k \in 1..Len(appliance["capabilities"]) :
                capability_offers(appliance["capabilities"][k],
                                  interface_name, property_name))

is_hue_v1(appliance) ==
    FieldIs(appliance, "manufacturerName", "Royal Philips Electronics")

\* is_skill without the comparison with "SKILL"
is_skill_any_namespace(appliance) ==
    /\ Has(appliance, "driverIdentity")
    /\ Has(appliance["driverIdentity"], "namespace")

is_skill(appliance) ==
    /\ Has(appliance, "driverIdentity")
    /\ FieldIs(appliance["driverIdentity"], "namespace", "SKILL")

\* bridge is None or an appliance: NoData or DictData(appliance)
is_known_ha_bridge(bridge) ==
    /\ bridge.t = "dict"
    /\ Has(bridge.d, "manufacturerName")
    /\ bridge.d["manufacturerName"] \in {"t0bst4r", "Matterbridge"}

\* re.I: the ASCII letters compare without case
UpperChars == <<"A","B","C","D","E","F","G","H","I","J","K","L","M",
                "N","O","P","Q","R","S","T","U","V","W","X","Y","Z">>
LowerChars == <<"a","b","c","d","e","f","g","h","i","j","k","l","m",
                "n","o","p","q","r","s","t","u","v","w","x","y","z">>
Lower(c) ==
    IF \E i \in 1..Len(UpperChars) : UpperChars[i] = c
    THEN LowerChars[CHOOSE i \in 1..Len(UpperChars) : UpperChars[i] = c]
    ELSE c
IsHexChar(c) == IsDigit(c) \/ Lower(c) \in {"a", "b", "c", "d", "e", "f"}

SonarPrefix == <<"A","A","A","_","S","o","n","a","r","C","l","o","u","d",
                 "S","e","r","v","i","c","e","_">>
HasSonarPrefix(s) ==
    /\ Len(s) >= Len(SonarPrefix)
    /\ \A i \in 1..Len(SonarPrefix) : Lower(s[i]) = Lower(SonarPrefix[i])

\* fullmatch of "(AAA_SonarCloudService_[a-f0-9\-]+)#[0-9]+" with the "#"
\* at position p
bridged_device_match_at(s, p) ==
    /\ s[p] = "#"
    /\ HasSonarPrefix(s)
    /\ p > Len(SonarPrefix) + 1
    /\ \A i \in (Len(SonarPrefix) + 1)..(p - 1) : IsHexChar(s[i]) \/ s[i] = "-"
    /\ p < Len(s)
    /\ \A i \in (p + 1)..Len(s) : IsDigit(s[i])
bridged_device_match(s) == \E p \in 1..Len(s) : bridged_device_match_at(s, p)
\* group(1) of the match
bridge_id_of(s) ==
    SubSeq(s, 1, (CHOOSE p \in 1..Len(s) : bridged_device_match_at(s, p)) - 1)

\* appliance.get("applianceId", "")
appliance_id_or_empty(appliance) ==
    IF Has(appliance, "applianceId") THEN appliance["applianceId"] ELSE <<>>

\* appliances, the dict the flattening builds, is the sequence of its values
\* in insertion order; their applianceIds differ pairwise
lookup_appliance(appliances, id) ==
    IF \E i \in 1..Len(appliances) : appliances[i]["applianceId"] = id
    THEN DictData(appliances[CHOOSE i \in 1..Len(appliances) :
                                appliances[i]["applianceId"] = id])
    ELSE NoData

get_device_bridge_any_connection(appliance, appliances) ==
    IF ~bridged_device_match(appliance_id_or_empty(appliance)) THEN NoData
    ELSE lookup_appliance(appliances,
                          bridge_id_of(appliance_id_or_empty(appliance)))

get_device_bridge(appliance, appliances) ==
    IF ~Has(appliance, "connectedVia") \/ appliance["connectedVia"] = ""
    THEN NoData
    ELSE IF ~bridged_device_match(appliance_id_or_empty(appliance)) THEN NoData
    ELSE lookup_appliance(appliances,
                          bridge_id_of(appliance_id_or_empty(appliance)))

\* fullmatch of "AAA_SonarCloudService_([0-9A-F][0-9A-F]:){7}[0-9A-F][0-9A-F]"
zigbee_match(s) ==
    /\ Len(s) = Len(SonarPrefix) + 23
    /\ HasSonarPrefix(s)
    /\ \A i \in 1..23 :
          IF i % 3 = 0 THEN s[Len(SonarPrefix) + i] = ":"
          ELSE IsHexChar(s[Len(SonarPrefix) + i])

is_local(appliance) ==
    IF Has(appliance, "connectedVia") /\ appliance["connectedVia"] # ""
    THEN TRUE
    ELSE IF InTypes(appliance, "ALEXA_VOICE_ENABLED")
    THEN ~is_skill(appliance)
    ELSE IF Has(appliance, "manufacturerName")
            /\ appliance["manufacturerName"] \in {"Ledvance", "Sengled", "Amazon"}
    THEN ~is_skill(appliance)
    ELSE IF FieldIs(appliance, "manufacturerName", "Third Reality")
            /\ FieldIs(appliance, "friendlyDescription", "Third Reality smart device")
    THEN TRUE
    ELSE IF FieldIs(appliance, "manufacturerName", "Amazon")
            /\ FieldIs(appliance, "friendlyDescription", "Amazon Smart Plug")
    THEN TRUE
    ELSE zigbee_match(appliance_id_or_empty(appliance))

is_alexa_guard(appliance) ==
    AndThen(IndexIs(appliance, "modelName", "REDROCK_GUARD_PANEL"),
            has_capability(appliance, "Alexa.SecurityPanelController", "armState"))

\* the description test of is_temperature_sensor passing for every description
is_any_description(appliance) ==
    IF Has(appliance, "friendlyDescription") THEN Ret(TRUE)
    ELSE Raise("KeyError")

is_not_air_quality_monitor(appliance) ==
    IF Has(appliance, "friendlyDescription")
    THEN Ret(appliance["friendlyDescription"] # "Amazon Indoor Air Quality Monitor")
    ELSE Raise("KeyError")

is_temperature_sensor(appliance) ==
    AndThen(Ret(is_local(appliance)),
    AndThen(has_capability(appliance, "Alexa.TemperatureSensor", "temperature"),
            is_not_air_quality_monitor(appliance)))

is_air_quality_sensor(appliance) ==
    AndThen(IndexIs(appliance, "friendlyDescription",
                    "Amazon Indoor Air Quality Monitor"),
    AndThen(Ret(InTypes(appliance, "AIR_QUALITY_MONITOR")),
    AndThen(has_capability(appliance, "Alexa.TemperatureSensor", "temperature"),
            has_capability(appliance, "Alexa.RangeController", "rangeValue"))))

\* is_light taking every smart plug for a light
is_light_any_plug(appliance) ==
    AndThen(Ret(/\ is_local(appliance)
                /\ \/ InTypes(appliance, "LIGHT")
                   \/ InTypes(appliance, "SMARTPLUG")),
            has_capability(appliance, "Alexa.PowerController", "powerState"))

is_light(appliance) ==
    AndThen(Ret(/\ is_local(appliance)
                /\ \/ InTypes(appliance, "LIGHT")
                   \/ /\ InTypes(appliance, "SMARTPLUG")
                      /\ FieldIs(appliance, "customerDefinedDeviceType", "LIGHT")),
            has_capability(appliance, "Alexa.PowerController", "powerState"))

is_contact_sensor(appliance) ==
    AndThen(Ret(is_local(appliance)),
    OrElse(Ret(InTypes(appliance, "CONTACT_SENSOR")),
           has_capability(appliance, "Alexa.ContactSensor", "detectionState")))

is_motion_sensor(appliance) ==
    AndThen(Ret(is_local(appliance)),
    OrElse(Ret(InTypes(appliance, "MOTION_SENSOR")),
           has_capability(appliance, "Alexa.MotionSensor", "detectionState")))

\* is_switch without the test of customerDefinedDeviceType
is_switch_ignoring_override(appliance) ==
    AndThen(Ret(/\ is_local(appliance)
                /\ InTypes(appliance, "SMARTPLUG") \/ InTypes(appliance, "SWITCH")),
            has_capability(appliance, "Alexa.PowerController", "powerState"))

is_switch(appliance) ==
    AndThen(Ret(/\ is_local(appliance)
                /\ InTypes(appliance, "SMARTPLUG") \/ InTypes(appliance, "SWITCH")
                /\ ~FieldIs(appliance, "customerDefinedDeviceType", "LIGHT")),
            has_capability(appliance, "Alexa.PowerController", "powerState"))

is_light_sensor(appliance) ==
    AndThen(Ret(is_local(appliance)),
            has_capability(appliance, "Alexa.LightSensor", "illuminance"))

\* the twelve detection properties, in the order the code tries them
AcousticDetectionStates ==
    <<"babyCryDetectionState", "beepingApplianceDetectionState",
      "carbonMonoxideSirenDetectionState", "coughDetectionState",
      "dogBarkDetectionState", "glassBreakDetectionState",
      "humanPresenceDetectionState", "runningWaterDetectionState",
      "smokeAlarmDetectionState", "smokeSirenDetectionState",
      "snoreDetectionState", "waterSoundsDetectionState">>

is_acoustic_event_sensor(appliance) ==
    AndThen(Ret(is_local(appliance)),
    AndThen(has_capability(appliance, "Alexa.AcousticEventSensor", "detectionModes"),
            Ret(\E i \in 1..Len(AcousticDetectionStates) :
                   Holds(has_capability(appliance, "Alexa.AcousticEventSensor",
                                        AcousticDetectionStates[i])))))

\* the first alias with a non-empty friendlyName, else appliance["friendlyName"]
RECURSIVE first_friendly_alias(_)
first_friendly_alias(aliases) ==
    IF aliases = <<>> THEN PyNone
    ELSE IF Has(Head(aliases), "friendlyName") /\ Head(aliases)["friendlyName"] # ""
    THEN PyStr(Head(aliases)["friendlyName"])
    ELSE first_friendly_alias(Tail(aliases))

appliance_aliases(appliance) ==
    IF Has(appliance, "aliases") THEN appliance["aliases"] ELSE <<>>

get_friendliest_name(appliance) ==
    IF first_friendly_alias(appliance_aliases(appliance)) # PyNone
    THEN Ret(first_friendly_alias(appliance_aliases(appliance))[2])
    ELSE Index(appliance, "friendlyName")

\* an identifier is [t |-> "dict", d |-> its keys] or, when it is not a
\* dict, [t |-> "str"]; a serial number is None or a string
RECURSIVE first_dict_serial(_)
first_dict_serial(identifiers) ==
    IF identifiers = <<>> THEN PyNone
    ELSE IF Head(identifiers).t = "dict"
    THEN Get(Head(identifiers).d, "dmsDeviceSerialNumber")
    ELSE first_dict_serial(Tail(identifiers))

get_device_serial(appliance) ==
    IF Has(appliance, "alexaDeviceIdentifierList")
    THEN first_dict_serial(appliance["alexaDeviceIdentifierList"])
    ELSE PyNone

\* "Alexa.AirQuality"
AirQualityPrefix == <<"A","l","e","x","a",".","A","i","r","Q","u","a","l","i","t","y">>
StartsWith(s, prefix) ==
    Len(s) >= Len(prefix) /\ SubSeq(s, 1, Len(prefix)) = prefix

\* entry["value"].get("assetId") is set and starts with "Alexa.AirQuality"
is_air_quality_asset(entry) ==
    /\ Has(entry["value"], "assetId")
    /\ StartsWith(entry["value"]["assetId"], AirQualityPrefix)

air_quality_sensor_entry(cap, entry) ==
    [sensorType |-> entry["value"]["assetId"],
     instance |-> cap["instance"],
     unit |-> cap["configuration"]["unitOfMeasure"]]

\* the inner loop over the friendlyNames of one capability
RECURSIVE capability_sensors(_, _, _)
capability_sensors(cap, entries, sensors) ==
    IF entries = <<>> THEN Ret(sensors)
    ELSE IF ~is_air_quality_asset(Head(entries))
    THEN capability_sensors(cap, Tail(entries), sensors)
    ELSE IF ~Has(cap, "configuration") \/ ~Has(cap["configuration"], "unitOfMeasure")
    THEN Raise("KeyError")
    ELSE capability_sensors(cap, Tail(entries),
            Append(sensors, air_quality_sensor_entry(cap, Head(entries))))

\* the loop over the capabilities of an air quality monitor
RECURSIVE air_quality_sensors_of(_, _)
air_quality_sensors_after(outcome, caps) ==
    IF IsRaise(outcome) THEN outcome
    ELSE air_quality_sensors_of(caps, outcome.value)
air_quality_sensors_of(caps, sensors) ==
    IF caps = <<>> THEN Ret(sensors)
    ELSE IF ~Has(Head(caps), "instance") \/ Head(caps)["instance"] = ""
    THEN air_quality_sensors_of(Tail(caps), sensors)
    ELSE IF ~Has(Head(caps), "resources") THEN Raise("KeyError")
    ELSE IF ~Has(Head(caps)["resources"], "friendlyNames") THEN Raise("TypeError")
    ELSE air_quality_sensors_after(
            capability_sensors(Head(caps), Head(caps)["resources"]["friendlyNames"],
                               sensors),
            Tail(caps))

\* the sensors the two loops have appended, and logged, when they end or
\* raise
RECURSIVE capability_sensors_logged(_, _, _)
capability_sensors_logged(cap, entries, sensors) ==
    IF entries = <<>> THEN sensors
    ELSE IF ~is_air_quality_asset(Head(entries))
    THEN capability_sensors_logged(cap, Tail(entries), sensors)
    ELSE IF ~Has(cap, "configuration") \/ ~Has(cap["configuration"], "unitOfMeasure")
    THEN sensors
    ELSE capability_sensors_logged(cap, Tail(entries),
            Append(sensors, air_quality_sensor_entry(cap, Head(entries))))

RECURSIVE air_quality_sensors_logged(_, _)
air_quality_sensors_logged(caps, sensors) ==
    IF caps = <<>> THEN sensors
    ELSE IF ~Has(Head(caps), "instance") \/ Head(caps)["instance"] = ""
    THEN air_quality_sensors_logged(Tail(caps), sensors)
    ELSE IF ~Has(Head(caps), "resources") THEN sensors
    ELSE IF ~Has(Head(caps)["resources"], "friendlyNames") THEN sensors
    ELSE IF IsRaise(capability_sensors(Head(caps),
                        Head(caps)["resources"]["friendlyNames"], sensors))
    THEN capability_sensors_logged(Head(caps),
            Head(caps)["resources"]["friendlyNames"], sensors)
    ELSE air_quality_sensors_logged(Tail(caps),
            capability_sensors_logged(Head(caps),
                Head(caps)["resources"]["friendlyNames"], sensors))

\* the sensors an appliance gets when it is an air quality monitor
air_quality_sensors(appliance) ==
    IF Holds(is_air_quality_sensor(appliance))
    THEN air_quality_sensors_of(appliance["capabilities"], <<>>)
    ELSE Ret(<<>>)

\* the outcomes of the steps of one loop iteration, in the order they run
classification_steps(appliance) ==
    <<Index(appliance, "entityId"),
      Index(appliance, "applianceId"),
      get_friendliest_name(appliance),
      is_alexa_guard(appliance),
      is_temperature_sensor(appliance),
      is_air_quality_sensor(appliance),
      air_quality_sensors(appliance),
      is_switch(appliance),
      is_light(appliance),
      is_contact_sensor(appliance),
      is_motion_sensor(appliance),
      is_light_sensor(appliance),
      is_acoustic_event_sensor(appliance)>>

\* the first step that raises, if any
first_raise(steps) ==
    IF \E i \in 1..Len(steps) : IsRaise(steps[i])
    THEN steps[CHOOSE i \in 1..Len(steps) :
                  IsRaise(steps[i]) /\ \A j \in 1..(i - 1) : ~IsRaise(steps[j])]
    ELSE Ret(PyNone)

\* serial if serial else appliance["entityId"]
serial_or_entity_id(serial, entity_id) ==
    IF serial # PyNone /\ serial # PyStr("") THEN serial[2] ELSE entity_id

EmptyDict == [k \in {} |-> k]

\* processed_appliance as every list that holds it shows it in the end: one
\* dict object, which the air-quality and the light branch write to
processed_appliance(appliance) ==
    [id |-> appliance["entityId"],
     appliance_id |-> appliance["applianceId"],
     name |-> get_friendliest_name(appliance).value,
     is_hue_v1 |-> is_hue_v1(appliance),
     device_serial |-> serial_or_entity_id(get_device_serial(appliance),
                                           appliance["entityId"])]
    @@ (IF Holds(is_air_quality_sensor(appliance))
        THEN [sensors |-> air_quality_sensors(appliance).value]
        ELSE EmptyDict)
    @@ (IF Holds(is_light(appliance))
        THEN [brightness |-> Holds(has_capability(appliance,
                                "Alexa.BrightnessController", "brightness")),
              color |-> Holds(has_capability(appliance,
                                "Alexa.ColorController", "color")),
              color_temperature |-> Holds(has_capability(appliance,
                                "Alexa.ColorTemperatureController",
                                "colorTemperatureInKelvin"))]
        ELSE EmptyDict)

Categories ==
    {"light", "guard", "temperature", "air_quality", "contact_sensor",
     "motion_sensor", "smart_switch", "light_sensor", "acoustic_event_sensor"}

\* how many times the iteration appends the appliance to the list of a
\* category: the temperature list takes temperature sensors and air quality
\* monitors
appended_to(category, appliance) ==
    CASE category = "guard" -> Holds(is_alexa_guard(appliance))
      [] category = "temperature" ->
            Holds(is_temperature_sensor(appliance))
              \/ Holds(is_air_quality_sensor(appliance))
      [] category = "air_quality" -> Holds(is_air_quality_sensor(appliance))
      [] category = "smart_switch" -> Holds(is_switch(appliance))
      [] category = "light" -> Holds(is_light(appliance))
      [] category = "contact_sensor" -> Holds(is_contact_sensor(appliance))
      [] category = "motion_sensor" -> Holds(is_motion_sensor(appliance))
      [] category = "light_sensor" -> Holds(is_light_sensor(appliance))
      [] category = "acoustic_event_sensor" ->
            Holds(is_acoustic_event_sensor(appliance))

LogEntry(message, appliance) == [message |-> message, appliance |-> appliance]
SensorLogEntry(entry) == [message |-> "AIAQM sensor detected", sensor |-> entry]

\* the debug records of the air quality branch of one iteration, one for
\* every sensor appended: none when the iteration raises before the branch
sensors_log(appliance) ==
    IF \E i \in 1..6 : IsRaise(classification_steps(appliance)[i]) THEN <<>>
    ELSE IF ~Holds(is_air_quality_sensor(appliance)) THEN <<>>
    ELSE [i \in 1..Len(air_quality_sensors_logged(appliance["capabilities"], <<>>))
            |-> SensorLogEntry(
                    air_quality_sensors_logged(appliance["capabilities"], <<>>)[i])]

\* the lists and the debug log after the iteration over one appliance
\* the number of appends to the list of a category: the temperature list
\* has one append in the temperature branch and one in the air quality
\* branch
appends_to(category, appliance) ==
    IF category = "temperature"
    THEN (IF Holds(is_temperature_sensor(appliance)) THEN 1 ELSE 0)
            + (IF Holds(is_air_quality_sensor(appliance)) THEN 1 ELSE 0)
    ELSE IF appended_to(category, appliance) THEN 1 ELSE 0

with_classified(acc, appliance) ==
    [lists |-> [c \in Categories |->
                   acc.lists[c]
                      \o [i \in 1..appends_to(c, appliance) |->
                            processed_appliance(appliance)]],
     log |-> IF \E c \in Categories : appended_to(c, appliance)
             THEN acc.log \o sensors_log(appliance)
             ELSE Append(acc.log, LogEntry("Found unsupported device", appliance))]

with_skipped(acc, appliance) ==
    [lists |-> acc.lists,
     log |-> Append(acc.log,
                    LogEntry("Found Home Assistant bridge, skipping", appliance))]

\* the loop over appliances.values(); it ends with the lists, or with the
\* exception an iteration raised
RECURSIVE classify_appliances(_, _, _)
classify_appliances(todo, appliances, acc) ==
    IF todo = <<>> THEN [outcome |-> Ret(acc.lists), log |-> acc.log]
    ELSE IF is_known_ha_bridge(get_device_bridge(Head(todo), appliances))
    THEN classify_appliances(Tail(todo), appliances, with_skipped(acc, Head(todo)))
    ELSE IF IsRaise(first_raise(classification_steps(Head(todo))))
    THEN [outcome |-> first_raise(classification_steps(Head(todo))),
          log |-> acc.log \o sensors_log(Head(todo))]
    ELSE classify_appliances(Tail(todo), appliances,
                             with_classified(acc, Head(todo)))

\* network_details is None (NoData) or holds locations: a sequence of
\* locations, each a sequence of bridges, each a sequence of appliances
RECURSIVE Concat(_)
Concat(seqs) == IF seqs = <<>> THEN <<>> ELSE Head(seqs) \o Concat(Tail(seqs))

appliance_walk(details) ==
    IF details.t = "NoneType" THEN <<>>
    ELSE Concat(Concat(details.d))

\* a list of appliances in place of the dict: every appliance is appended
dict_put_append(appliances, appliance) == Append(appliances, appliance)

\* appliances[appliance["applianceId"]] = appliance: a new key is appended,
\* a known key keeps its place and takes the new value
dict_put(appliances, appliance) ==
    IF \E i \in 1..Len(appliances) :
          appliances[i]["applianceId"] = appliance["applianceId"]
    THEN [i \in 1..Len(appliances) |->
             IF appliances[i]["applianceId"] = appliance["applianceId"]
             THEN appliance ELSE appliances[i]]
    ELSE Append(appliances, appliance)

RECURSIVE flatten_appliances(_, _)
flatten_appliances(walk, appliances) ==
    IF walk = <<>> THEN Ret(appliances)
    ELSE IF ~Has(Head(walk), "applianceId") THEN Raise("KeyError")
    ELSE flatten_appliances(Tail(walk), dict_put(appliances, Head(walk)))

EmptyLists == [c \in Categories |-> <<>>]

classify_flattened(flattened) ==
    IF IsRaise(flattened) THEN [outcome |-> flattened, log |-> <<>>]
    ELSE classify_appliances(flattened.value, flattened.value,
                             [lists |-> EmptyLists, log |-> <<>>])

parse_alexa_entities(details) ==
    classify_flattened(flatten_appliances(appliance_walk(details), <<>>))

\* mutant: the run takes the id out of the appliance it reads,
\* appliance.pop("applianceId", None)
appliance_after_pop(appliance) ==
    [k \in DOMAIN appliance \ {"applianceId"} |-> appliance[k]]

\* an appliance of the graph after the run: the run reads it by subscript
\* and dict.get, stores it under its id in the local dict appliances, and
\* copies what it needs into the new dict processed_appliance
appliance_after_read(appliance) == appliance

\* network_details after parse_alexa_entities: the locations, bridges and
\* appliances are iterated with .values() and keep their places
graph_after_parse(details) ==
    IF details.t = "NoneType" THEN details
    ELSE DictData([l \in DOMAIN details.d |->
                     [b \in DOMAIN details.d[l] |->
                        [a \in DOMAIN details.d[l][b] |->
                           appliance_after_read(details.d[l][b][a])]]])

---------------------------------------------------------------------------
(* Inputs of the resolver: snapshots, cutoffs and queries *)

\* "2024-01-01T00:00:00.000Z"
TsExample == <<"2", "0", "2", "4", "-", "0", "1", "-", "0", "1", "T", "0", "0", ":", "0", "0", ":", "0", "0", ".", "0", "0", "0", "Z">>
\* "2024-01-01T01:00:00.000+01:00", the same instant at another offset
TsOffset == <<"2", "0", "2", "4", "-", "0", "1", "-", "0", "1", "T", "0", "1", ":", "0", "0", ":", "0", "0", ".", "0", "0", "0", "+", "0", "1", ":", "0", "0">>
\* "2023-12-31T23:59:59.999999Z", one microsecond earlier
TsMicroBefore == <<"2", "0", "2", "3", "-", "1", "2", "-", "3", "1", "T", "2", "3", ":", "5", "9", ":", "5", "9", ".", "9", "9", "9", "9", "9", "9", "Z">>
\* "2024-01-01T00:00:00Z", no fractional seconds: not in the fixed format
TsMalformed == <<"2", "0", "2", "4", "-", "0", "1", "-", "0", "1", "T", "0", "0", ":", "0", "0", ":", "0", "0", "Z">>
\* ""
TsEmpty == <<>>

\* datetime(2024, 1, 1, 0, 0, 0, tzinfo=utc) and its neighbours
AtExample == [day |-> 738886, sec |-> 0, us |-> 0]
SecondBefore == [day |-> 738885, sec |-> 86399, us |-> 0]
SecondAfter == [day |-> 738886, sec |-> 1, us |-> 0]
PyDatetime(t) == <<"datetime", t>>
Cutoffs == {PyNone, PyDatetime(SecondBefore), PyDatetime(AtExample),
            PyDatetime(SecondAfter)}

CapState(namespace, name, value) ==
    [namespace |-> PyStr(namespace), name |-> PyStr(name), value |-> PyStr(value)]
With(r, key, v) == [k \in DOMAIN r \cup {key} |-> IF k = key THEN v ELSE r[k]]
Without(r, key) == [k \in DOMAIN r \ {key} |-> r[k]]

PowerOn == CapState("Alexa.PowerController", "powerState", "ON")
PowerOff == CapState("Alexa.PowerController", "powerState", "OFF")
Range(i) == With(CapState("Alexa.RangeController", "rangeValue", i),
                 "instance", PyStr(i))

ResolverRecords ==
    {With(PowerOn, "timeOfSample", PyStr(ts)) :
        ts \in {TsExample, TsOffset, TsMicroBefore, TsMalformed, TsEmpty}}
    \cup {With(PowerOff, "timeOfSample", PyStr(ts)) : ts \in {TsExample, TsMicroBefore}}
    \cup {PowerOn, Without(PowerOn, "value")}
    \cup {Range(i) : i \in {"1", "2"}}
    \cup {With(Range(i), "timeOfSample", PyStr(TsExample)) : i \in {"1", "2"}}
    \cup {CapState("Alexa.PowerController", "rangeValue", "name-differs"),
          CapState("Alexa.RangeController", "powerState", "namespace-differs")}

SeqsUpTo(S, n) == UNION {[1..k -> S] : k \in 0..n}

EntityIds == {"E1", "E2"}
OtherEntityStates == <<CapState("Alexa.PowerController", "powerState", "other-entity")>>

\* the snapshots: None, {}, and dicts holding E1, E2 or both
ResolverSnapshots ==
    {NoData, DictData(<<>>), DictData([e \in {"E2"} |-> OtherEntityStates])}
    \cup {DictData([e \in {"E1"} |-> l]) : l \in SeqsUpTo(ResolverRecords, MaxRecords)}
    \cup {DictData([e \in EntityIds |-> IF e = "E1" THEN l ELSE OtherEntityStates]) :
            l \in SeqsUpTo(ResolverRecords, MaxRecords)}

Queries ==
    [entity_id : EntityIds,
     namespace : {PyStr("Alexa.PowerController"), PyStr("Alexa.RangeController")},
     name : {PyStr("powerState"), PyStr("rangeValue")},
     since : Cutoffs,
     instance : {PyNone, PyStr("1"), PyStr("2")}]

---------------------------------------------------------------------------
(* The resolver as a state machine: a snapshot, then one call with any    *)
(* arguments (the resolver keeps no state, so calls are independent)       *)

InitResolver ==
    /\ coordinator_data \in ResolverSnapshots
    /\ query = Idle
    /\ result = Idle
    /\ sensor = Idle
    /\ attr_is_on = Idle
    /\ last_call = Idle
    /\ last_reading = Idle
    /\ network_details = Idle
    /\ entities = Idle
    /\ helper = Idle

CallResolver ==
    /\ coordinator_data # Idle /\ sensor = Idle /\ query = Idle
    /\ \E q \in Queries :
        /\ query' = q
        /\ result' = parse_value_from_coordinator(coordinator_data, q.entity_id,
                        q.namespace, q.name, q.since, q.instance)
        /\ coordinator_data' = data_after_parse_value(coordinator_data,
                        q.entity_id, q.namespace, q.name, q.since, q.instance)
    /\ UNCHANGED <<sensor, attr_is_on, last_call, last_reading,
                   network_details, entities,
                   helper>>

NextResolver == CallResolver
SpecResolver == InitResolver /\ [][NextResolver]_vars


---------------------------------------------------------------------------
(* The sensors as a state machine: one entity of any class, built on a     *)
(* snapshot; the coordinator then publishes snapshots and the entity's     *)
(* handler and properties run in any order.                                *)

SensorNamespace(class) ==
    IF class \in AcousticEventSensors THEN "Alexa.AcousticEventSensor"
    ELSE IF class \in MotionSensors THEN "Alexa.MotionSensor"
    ELSE "Alexa.ContactSensor"
SensorProperty(class) ==
    IF class \in AcousticEventSensors THEN detection_state_key[class]
    ELSE "detectionState"

ReportedValues ==
    {PyStr("DETECTED"), PyStr("NOT_DETECTED"), PyStr("GARBAGE"),
     PyDict1("value", "DETECTED"), PyDict1("value", "NOT_DETECTED"),
     PyDict1("confidence", "HIGH")}

\* the records of the entity's own capability: one per reported value, and
\* one without a value
OwnRecords(class) ==
    {[namespace |-> PyStr(SensorNamespace(class)),
      name |-> PyStr(SensorProperty(class)), value |-> v] : v \in ReportedValues}
    \cup {[namespace |-> PyStr(SensorNamespace(class)),
           name |-> PyStr(SensorProperty(class))]}

\* a record of another capability of the same appliance, reporting DETECTED
OtherRecord(class) ==
    IF class \in AcousticEventSensors
    THEN [namespace |-> PyStr("Alexa.AcousticEventSensor"),
          name |-> PyStr(IF class = "BabyCrySensor" THEN "dogBarkDetectionState"
                         ELSE "babyCryDetectionState"),
          value |-> PyStr("DETECTED")]
    ELSE [namespace |-> PyStr(IF class \in MotionSensors THEN "Alexa.ContactSensor"
                              ELSE "Alexa.MotionSensor"),
          name |-> PyStr("detectionState"), value |-> PyStr("DETECTED")]

SensorCapStates(class) ==
    {<<>>, <<OtherRecord(class)>>}
    \cup {<<r>> : r \in OwnRecords(class)}
    \cup {<<OtherRecord(class), r>> : r \in OwnRecords(class)}

SensorSnapshots(class) ==
    {NoData, DictData(<<>>), DictData([e \in {"E2"} |-> OtherEntityStates])}
    \cup {DictData([e \in {"E1"} |-> l]) : l \in SensorCapStates(class)}

Entity(class) == [class |-> class, alexa_entity_id |-> "E1"]

Call(method, resolved, before, outcome) ==
    [method |-> method, resolved |-> resolved, before |-> before,
     outcome |-> outcome]

\* the most recent reading, by __init__ or by the handler, that was not absent
Reading(method, resolved, previous) ==
    IF IsRet(resolved) /\ ~IsNone(resolved.value)
    THEN [by |-> method, value |-> resolved.value]
    ELSE previous

Constructed(class, data, resolved) ==
    /\ sensor = Entity(class)
    /\ coordinator_data = data_after_resolve(class, data, "E1")
    /\ attr_is_on = sensor_init(class, resolved).attr
    /\ last_call = Call("__init__", resolved, PyNone,
                        sensor_init(class, resolved).outcome)
    /\ last_reading = Reading("__init__", resolved, Idle)

InitSensors ==
    /\ \E class \in SensorClasses : \E data \in SensorSnapshots(class) :
          Constructed(class, data,
                      resolve_detection_state(class, data, "E1"))
    /\ query = Idle
    /\ result = Idle
    /\ network_details = Idle
    /\ entities = Idle
    /\ helper = Idle

\* the coordinator publishes a new snapshot
CoordinatorRefresh ==
    /\ sensor # Idle
    /\ coordinator_data' \in SensorSnapshots(sensor.class)
    /\ UNCHANGED <<query, result, sensor, attr_is_on, last_call, last_reading,
                   network_details, entities,
                   helper>>

Handled(resolved, effect) ==
    /\ attr_is_on' = effect.attr
    /\ last_call' = Call("_handle_coordinator_update", resolved, attr_is_on,
                         effect.outcome)
    /\ last_reading' = Reading("_handle_coordinator_update", resolved,
                               last_reading)

HandleCoordinatorUpdateOf(resolved) ==
    Handled(resolved, handle_coordinator_update(sensor.class, attr_is_on, resolved))

\* the entity's _handle_coordinator_update runs on the published snapshot
HandleCoordinatorUpdate ==
    /\ sensor # Idle
    /\ HandleCoordinatorUpdateOf(
          resolve_detection_state(sensor.class, coordinator_data,
                                  sensor.alexa_entity_id))
    /\ coordinator_data' = data_after_resolve(sensor.class, coordinator_data,
                                              sensor.alexa_entity_id)
    /\ UNCHANGED <<query, result, sensor, network_details, entities,
                   helper>>

ReadIsOnOf(resolved) ==
    last_call' = Call("is_on", resolved, attr_is_on,
                      is_on(sensor.class, attr_is_on, resolved))

\* the host reads the is_on property
ReadIsOn ==
    /\ sensor # Idle
    /\ ReadIsOnOf(resolve_detection_state(sensor.class, coordinator_data,
                                          sensor.alexa_entity_id))
    /\ coordinator_data' = data_after_is_on(sensor.class, coordinator_data,
                                            sensor.alexa_entity_id)
    /\ UNCHANGED <<query, result, sensor, attr_is_on,
                   last_reading, network_details, entities,
                   helper>>

\* the host reads the assumed_state property of a contact sensor
ReadAssumedState ==
    /\ sensor # Idle
    /\ sensor.class \in ContactSensors
    /\ last_call' = Call("assumed_state", Ret(PyNone), attr_is_on,
                         assumed_state(coordinator_data, sensor.alexa_entity_id))
    /\ coordinator_data' = data_after_has_entity_data(coordinator_data,
                                                      sensor.alexa_entity_id)
    /\ UNCHANGED <<query, result, sensor, attr_is_on,
                   last_reading, network_details, entities,
                   helper>>

NextSensors ==
    \/ CoordinatorRefresh
    \/ HandleCoordinatorUpdate
    \/ ReadIsOn
    \/ ReadAssumedState
SpecSensors == InitSensors /\ [][NextSensors]_vars

\* the resolver called directly and the sensors, each on its own snapshots
InitSnapshot == InitResolver \/ InitSensors
NextSnapshot == NextResolver \/ NextSensors
SpecSnapshot == InitSnapshot /\ [][NextSnapshot]_vars

---------------------------------------------------------------------------
(* The classifier as a state machine: a network graph, then one call of    *)
(* parse_alexa_entities on it.  The graphs hold bridges and the devices    *)
(* behind them: every device is tagged as a contact sensor, so that it is  *)
(* listed whenever it is local and not skipped.                            *)

BridgeId == SonarPrefix \o <<"a","b","-","1","2">>
NonHexBridgeId == SonarPrefix \o <<"z","z">>
PlainId == <<"p","l","u","g">>

\* the appliance ids of the devices, each with its entityId
DeviceIds ==
    {[applianceId |-> BridgeId \o <<"#","1">>, entityId |-> "device-1"],
     [applianceId |-> BridgeId \o <<"#","2","2">>, entityId |-> "device-22"],
     [applianceId |-> SonarPrefix \o <<"A","B","-","1","2","#","1">>,
      entityId |-> "device-upper"],
     [applianceId |-> BridgeId \o <<"#">>, entityId |-> "device-no-index"],
     [applianceId |-> BridgeId \o <<"#","1","x">>, entityId |-> "device-suffix"],
     [applianceId |-> NonHexBridgeId \o <<"#","1">>, entityId |-> "device-non-hex"],
     [applianceId |-> SonarPrefix \o <<"c","d","-","3","4","#","1">>,
      entityId |-> "device-orphan"],
     [applianceId |-> PlainId, entityId |-> "device-plain"]}

Device(ids) ==
    [applianceId |-> ids.applianceId, entityId |-> ids.entityId,
     friendlyName |-> "Door", manufacturerName |-> "Acme",
     modelName |-> "DS-1", friendlyDescription |-> "Door sensor",
     applianceTypes |-> <<"CONTACT_SENSOR">>, capabilities |-> <<>>]

Bridge(id) ==
    [applianceId |-> id,
     entityId |-> IF id = BridgeId THEN "bridge" ELSE "bridge-non-hex",
     friendlyName |-> "Bridge", modelName |-> "HUB-1",
     friendlyDescription |-> "Matter bridge",
     applianceTypes |-> <<"HUB">>, capabilities |-> <<>>]

Field(key, v) == [k \in {key} |-> v]

BridgePool ==
    {Device(ids) : ids \in DeviceIds}
    \cup {Device(ids) @@ Field("connectedVia", via) :
            ids \in DeviceIds, via \in {"", "Echo Dot"}}
    \cup {Bridge(id) : id \in {BridgeId, NonHexBridgeId}}
    \cup {Bridge(id) @@ Field("manufacturerName", m) :
            id \in {BridgeId, NonHexBridgeId},
            m \in {"t0bst4r", "Matterbridge", "Amazon"}}

\* a graph with every appliance under one bridge of one location, and one
\* with every appliance in a location of its own
OneBridge(appliances) == DictData(<<<<appliances>>>>)
OwnLocations(appliances) ==
    DictData([i \in 1..Len(appliances) |-> <<<<appliances[i]>>>>])

\* the graphs of a sequence of appliances
Networks(appliances) == {NoData, OneBridge(appliances), OwnLocations(appliances)}

InitClassifier ==
    /\ \E k \in 0..MaxAppliances : \E appliances \in [1..k -> BridgePool] :
          network_details \in Networks(appliances)
    /\ entities = Idle
    /\ helper = Idle
    /\ coordinator_data = Idle
    /\ query = Idle
    /\ result = Idle
    /\ sensor = Idle
    /\ attr_is_on = Idle
    /\ last_call = Idle
    /\ last_reading = Idle

ParseAlexaEntities ==
    /\ network_details # Idle /\ entities = Idle
    /\ entities' = parse_alexa_entities(network_details)
    /\ network_details' = graph_after_parse(network_details)
    /\ UNCHANGED <<coordinator_data, query, result, sensor, attr_is_on,
                   last_call, last_reading,
                   helper>>

NextClassifier == ParseAlexaEntities
SpecClassifier == InitClassifier /\ [][NextClassifier]_vars

\* ---------------------------------------------------------------------
\* The classifier on appliances of every shape, and its predicates
\* called on their own
\* ---------------------------------------------------------------------

\* "AAA_SonarCloudService_00:11:22:33:44:55:66:AF"
ZigbeeId ==
    SonarPrefix \o <<"0","0",":","1","1",":","2","2",":","3","3",":",
                     "4","4",":","5","5",":","6","6",":","A","F">>

\* the field left out, or the field with one of the values
Optional(key, values) == {EmptyDict} \cup {Field(key, v) : v \in values}

\* the keys every appliance of these graphs has, whatever else it has
Appliance(id, entity_id) ==
    [applianceId |-> id, entityId |-> entity_id, friendlyName |-> "Plug",
     modelName |-> "P-1", capabilities |-> <<>>]

\* a well-formed contact sensor and a second appliance that lacks one of the
\* keys the classifier indexes, connected via an Echo or not
ExpectedKeys ==
    {"modelName", "friendlyDescription", "friendlyName", "entityId",
     "capabilities"}
WellFormed ==
    Device([applianceId |-> PlainId, entityId |-> "device-plain"])
        @@ Field("connectedVia", "Echo Dot")
Other(via) ==
    via @@ Device([applianceId |-> ZigbeeId, entityId |-> "device-other"])
MalformedPool ==
    {WellFormed}
    \cup {Other(via) : via \in Optional("connectedVia", {"Echo Dot"})}
    \cup {Without(Other(Field("connectedVia", "Echo Dot")), key) :
            key \in ExpectedKeys}
    \cup {Without(Other(EmptyDict), "modelName")}

\* appliances that differ in what is_local looks at
LocalityPool ==
    {via @@ types @@ manufacturer @@ description @@ driver
         @@ Appliance(id, "plug-1") :
        via \in Optional("connectedVia", {"", "Echo Dot"}),
        types \in Optional("applianceTypes", {<<>>, <<"ALEXA_VOICE_ENABLED">>}),
        manufacturer \in Optional("manufacturerName",
            {"Acme", "Ledvance", "Sengled", "Amazon", "Third Reality"}),
        description \in Optional("friendlyDescription",
            {"Plug", "Third Reality smart device", "Amazon Smart Plug"}),
        driver \in Optional("driverIdentity",
            {EmptyDict, [namespace |-> "SKILL"], [namespace |-> "AAA"]}),
        id \in {PlainId, ZigbeeId}}

\* capabilities
Properties(retrievable, reported, supported) ==
    [retrievable |-> retrievable, proactivelyReported |-> reported,
     supported |-> supported]
Capability(interface, properties) ==
    [interfaceName |-> interface, properties |-> properties]
BareCapability(interface) == [interfaceName |-> interface]
Usable(interface, property) ==
    Capability(interface, Properties(TRUE, FALSE, <<property>>))
Unreported(interface, property) ==
    Capability(interface, Properties(FALSE, FALSE, <<property>>))

\* one power capability in every state of its properties
PowerCapabilities ==
    {Capability("Alexa.PowerController", Properties(r, p, s)) :
        r \in BOOLEAN, p \in BOOLEAN,
        s \in {<<"powerState">>, <<>>, <<"other", "powerState">>}}
    \cup {BareCapability("Alexa.PowerController")}

\* a range capability of an air quality monitor, with one sensor
RangeCapability ==
    Usable("Alexa.RangeController", "rangeValue")
        @@ [instance |-> "4",
            resources |-> [friendlyNames |->
                <<[value |-> [assetId |-> AirQualityPrefix \o <<".","V","O","C">>]]>>],
            configuration |-> [unitOfMeasure |-> "Alexa.Unit.Percent"]]

\* a capability with an instance, tagged with asset ids
AssetEntry(asset) == [value |-> [assetId |-> asset]]
InstanceCapability(interface, property, instance, assets) ==
    Usable(interface, property)
        @@ [instance |-> instance,
            resources |-> [friendlyNames |-> assets],
            configuration |-> [unitOfMeasure |-> "Alexa.Unit.Density"]]
Humidity == AirQualityPrefix \o <<".","H">>
SettingAsset == <<"A","l","e","x","a",".","S","e","t","t","i","n","g">>

\* the capabilities of air quality monitors: two range sensors; a sensor of
\* another interface; a range capability tagged with no air quality asset;
\* and one without instance
MonitorCapabilityLists ==
    {<<Usable("Alexa.TemperatureSensor", "temperature"), RangeCapability,
       InstanceCapability("Alexa.RangeController", "rangeValue", "5",
                          <<AssetEntry(Humidity)>>)>>,
     <<Usable("Alexa.TemperatureSensor", "temperature"), RangeCapability,
       InstanceCapability("Alexa.ModeController", "mode", "7",
                          <<AssetEntry(Humidity)>>)>>,
     <<Usable("Alexa.TemperatureSensor", "temperature"), RangeCapability,
       InstanceCapability("Alexa.RangeController", "rangeValue", "9",
                          <<AssetEntry(SettingAsset)>>)>>,
     <<Usable("Alexa.TemperatureSensor", "temperature"), RangeCapability,
       Without(InstanceCapability("Alexa.RangeController", "rangeValue", "5",
                                  <<AssetEntry(Humidity)>>), "instance")>>}

CapabilityLists ==
    {<<>>}
    \cup MonitorCapabilityLists
    \cup {<<c>> : c \in PowerCapabilities}
    \cup {<<Capability("Alexa.PowerController", Properties(TRUE, FALSE, <<>>)),
            Usable("Alexa.Other", "powerState")>>,
          <<Usable("Alexa.Other", "powerState")>>,
          <<BareCapability("Alexa.PowerController"),
            Usable("Alexa.PowerController", "powerState")>>,
          <<Usable("Alexa.TemperatureSensor", "temperature")>>,
          <<Usable("Alexa.TemperatureSensor", "temperature"), RangeCapability>>,
          <<RangeCapability, Usable("Alexa.TemperatureSensor", "temperature")>>,
          <<Unreported("Alexa.TemperatureSensor", "temperature"), RangeCapability>>,
          <<Usable("Alexa.TemperatureSensor", "temperature"),
            BareCapability("Alexa.RangeController")>>,
          <<BareCapability("Alexa.TemperatureSensor"),
            BareCapability("Alexa.RangeController")>>,
          <<Usable("Alexa.ContactSensor", "detectionState")>>,
          <<Unreported("Alexa.ContactSensor", "detectionState")>>,
          <<Usable("Alexa.MotionSensor", "detectionState")>>,
          <<BareCapability("Alexa.MotionSensor")>>,
          <<Usable("Alexa.LightSensor", "illuminance")>>,
          <<Unreported("Alexa.LightSensor", "illuminance")>>,
          <<Capability("Alexa.AcousticEventSensor",
                Properties(FALSE, TRUE,
                    <<"detectionModes", "babyCryDetectionState">>))>>,
          <<Capability("Alexa.AcousticEventSensor",
                Properties(FALSE, FALSE,
                    <<"detectionModes", "babyCryDetectionState">>))>>,
          <<Usable("Alexa.SecurityPanelController", "armState")>>}

\* appliances that differ in what the category predicates look at
CategoryPool ==
    {locality @@ Field("applianceTypes", types) @@ redeclared
         @@ Field("friendlyDescription", description)
         @@ Field("capabilities", capabilities)
         @@ Appliance(PlainId, "plug-1") :
        locality \in {EmptyDict, Field("connectedVia", "Echo Dot"),
                      Field("manufacturerName", "Amazon")},
        types \in {<<>>, <<"SMARTPLUG">>, <<"SWITCH">>, <<"LIGHT">>,
                   <<"LIGHT", "SMARTPLUG">>, <<"AIR_QUALITY_MONITOR">>,
                   <<"AIR_QUALITY_MONITOR", "CONTACT_SENSOR">>,
                   <<"CONTACT_SENSOR">>, <<"MOTION_SENSOR">>},
        redeclared \in Optional("customerDefinedDeviceType", {"LIGHT", "OTHER"}),
        description \in {"Plug", "Amazon Indoor Air Quality Monitor"},
        capabilities \in CapabilityLists}

\* the entries of alexaDeviceIdentifierList: a dict with a serial, with an
\* empty one, with None, without the key, and an entry that is no dict
IdentifierEntries ==
    {DictData([dmsDeviceSerialNumber |-> serial]) :
        serial \in {PyStr("S1"), PyStr("S2"), PyStr(""), PyNone}}
    \cup {DictData(EmptyDict), [t |-> "str"]}
IdentifierLists ==
    {<<>>} \cup {<<e>> : e \in IdentifierEntries}
    \cup {<<e, f>> : e \in IdentifierEntries, f \in IdentifierEntries}
SerialPool ==
    {identifiers @@ WellFormed :
        identifiers \in Optional("alexaDeviceIdentifierList", IdentifierLists)}

ShapePool == LocalityPool \cup CategoryPool \cup SerialPool

\* appliances that share one applianceId and differ in entityId and in
\* the lists they belong to
Twin(entity_id, locality, types, description, capabilities) ==
    locality @@ Field("applianceTypes", types)
        @@ Field("friendlyDescription", description)
        @@ Field("capabilities", capabilities)
        @@ Appliance(PlainId, entity_id)
TwinPool ==
    {Twin("twin-contact", Field("connectedVia", "Echo Dot"),
          <<"CONTACT_SENSOR">>, "Plug", <<>>),
     Twin("twin-remote", EmptyDict, <<"CONTACT_SENSOR">>, "Plug", <<>>),
     Twin("twin-temperature", Field("connectedVia", "Echo Dot"), <<>>, "Plug",
          <<Usable("Alexa.TemperatureSensor", "temperature")>>),
     Twin("twin-monitor", Field("connectedVia", "Echo Dot"),
          <<"AIR_QUALITY_MONITOR">>, "Amazon Indoor Air Quality Monitor",
          <<Usable("Alexa.TemperatureSensor", "temperature"), RangeCapability>>),
     Twin("twin-plug", Field("connectedVia", "Echo Dot"),
          <<"SMARTPLUG", "CONTACT_SENSOR">>, "Plug",
          <<Usable("Alexa.PowerController", "powerState")>>),
     WellFormed,
     Other(Field("connectedVia", "Echo Dot"))}

\* the arguments has_capability is called with
CapabilityQueries ==
    {[interface_name |-> "Alexa.PowerController", property_name |-> "powerState"],
     [interface_name |-> "Alexa.PowerController", property_name |-> "temperature"],
     [interface_name |-> "Alexa.TemperatureSensor", property_name |-> "temperature"],
     [interface_name |-> "Alexa.Other", property_name |-> "powerState"]}

InitAppliances ==
    /\ \/ \E k \in 1..MaxAppliances : \E appliances \in [1..k -> MalformedPool] :
             network_details = OneBridge(appliances)
       \/ \E appliance \in ShapePool :
             network_details = OneBridge(<<appliance>>)
       \/ \E first \in TwinPool, second \in TwinPool :
             network_details \in Networks(<<first, second>>) \ {NoData}
    /\ entities = Idle
    /\ helper = Idle
    /\ coordinator_data = Idle
    /\ query = Idle
    /\ result = Idle
    /\ sensor = Idle
    /\ attr_is_on = Idle
    /\ last_call = Idle
    /\ last_reading = Idle

\* a second run of the classifier, on the graph as the first run left it
ParseAlexaEntitiesAgain ==
    /\ network_details # Idle /\ entities # Idle /\ query = Idle
    /\ query' = [function |-> "parse_alexa_entities",
                 network_details |-> network_details]
    /\ result' = parse_alexa_entities(network_details)
    /\ network_details' = graph_after_parse(network_details)
    /\ UNCHANGED <<coordinator_data, sensor, attr_is_on, last_call,
                   last_reading, entities,
                   helper>>

\* is_local called on an appliance of the graph
CallIsLocal ==
    /\ network_details # Idle /\ entities = Idle /\ query = Idle
    /\ \E i \in 1..Len(appliance_walk(network_details)) :
          /\ query' = [function |-> "is_local",
                       appliance |-> appliance_walk(network_details)[i]]
          /\ result' = Ret(is_local(appliance_walk(network_details)[i]))
    /\ UNCHANGED <<coordinator_data, sensor, attr_is_on, last_call,
                   last_reading, network_details, entities,
                   helper>>

\* has_capability called on an appliance of the graph
CallHasCapability ==
    /\ network_details # Idle /\ entities = Idle /\ query = Idle
    /\ \E i \in 1..Len(appliance_walk(network_details)) :
       \E arguments \in CapabilityQueries :
          /\ query' = [function |-> "has_capability",
                       appliance |-> appliance_walk(network_details)[i],
                       interface_name |-> arguments.interface_name,
                       property_name |-> arguments.property_name]
          /\ result' = has_capability(appliance_walk(network_details)[i],
                                      arguments.interface_name,
                                      arguments.property_name)
    /\ UNCHANGED <<coordinator_data, sensor, attr_is_on, last_call,
                   last_reading, network_details, entities,
                   helper>>

NextAppliances ==
    \/ ParseAlexaEntities
    \/ ParseAlexaEntitiesAgain
    \/ CallIsLocal
    \/ CallHasCapability
SpecAppliances == InitAppliances /\ [][NextAppliances]_vars

\* ---------------------------------------------------------------------
\* helpers.py: retry_async
\* ---------------------------------------------------------------------

\* the largest limit a wrapper is built with
MaxLimit == 3

\* bool(v) of a value the wrapped function returns
py_bool(v) == v \notin {PyFalse, PyNone, PyStr("")}

\* 2**n
RECURSIVE Pow2(_)
Pow2(n) == IF n = 0 THEN 1 ELSE 2 * Pow2(n - 1)

\* the wait starting at delay instead of twice the delay
backoff_from_delay(delay, retries) == delay * Pow2(retries - 1)

\* delay * 2**retries
backoff(delay, retries) == delay * Pow2(retries)

\* what the trace of a wrapper call records: a sleep and a call of func
Slept(seconds) == [event |-> "sleep", seconds |-> seconds]
Invoked(outcome) == [event |-> "call", outcome |-> outcome]

\* the wrapper entered: retries = 0, result = False, next_try = 0
retry_wrapper(limit, delay, catch_exceptions) ==
    [function |-> "retry_async", limit |-> limit, delay |-> delay,
     catch_exceptions |-> catch_exceptions,
     retries |-> 0, result |-> PyFalse, next_try |-> 0,
     pc |-> "while", trace |-> <<>>, outcome |-> Idle]

\* the loop test without "not result"
retry_continues_after_success(w) == w.retries < w.limit

\* while not result and retries < limit
retry_continues(w) == ~py_bool(w.result) /\ w.retries < w.limit

\* if retries != 0: next_try = delay * 2**retries; await asyncio.sleep(next_try)
retry_sleep(w) ==
    [w EXCEPT !.next_try = backoff(w.delay, w.retries),
              !.trace = Append(w.trace, Slept(backoff(w.delay, w.retries))),
              !.pc = "try"]

\* retries += 1, then the wrapper is suspended at "await func(...)"
retry_attempt(w) == [w EXCEPT !.retries = w.retries + 1, !.pc = "await"]

\* the exceptions "except Exception" does not catch: the classes of
\* builtins and asyncio that derive from BaseException and not from
\* Exception
BaseExceptionsOnly ==
    {"BaseException", "BaseExceptionGroup", "CancelledError",
     "GeneratorExit", "KeyboardInterrupt", "SystemExit"}

\* isinstance(ex, Exception)
is_exception(exc) == exc \notin BaseExceptionsOnly

\* the try statement catching whatever is raised, whatever
\* catch_exceptions says
retry_try_always_catch(w, outcome) ==
    IF IsRet(outcome)
    THEN [w EXCEPT !.result = outcome.value,
                   !.trace = Append(w.trace, Invoked(outcome)),
                   !.pc = "while"]
    ELSE [w EXCEPT !.trace = Append(w.trace, Invoked(outcome)),
                   !.pc = "while"]

\* the wrapper resumed with what func did: result = ...; or an exception
\* that "except Exception" does not catch leaves the wrapper; or the
\* except clause raises it again when catch_exceptions is false, and
\* otherwise the loop goes on
retry_try(w, outcome) ==
    IF IsRet(outcome)
    THEN [w EXCEPT !.result = outcome.value,
                   !.trace = Append(w.trace, Invoked(outcome)),
                   !.pc = "while"]
    ELSE IF ~is_exception(outcome.exc)
    THEN [w EXCEPT !.trace = Append(w.trace, Invoked(outcome)),
                   !.pc = "done", !.outcome = outcome]
    ELSE IF ~w.catch_exceptions
    THEN [w EXCEPT !.trace = Append(w.trace, Invoked(outcome)),
                   !.pc = "done", !.outcome = outcome]
    ELSE [w EXCEPT !.trace = Append(w.trace, Invoked(outcome)),
                   !.pc = "while"]

\* return result
retry_return(w) == [w EXCEPT !.pc = "done", !.outcome = Ret(w.result)]

\* the arguments of retry_async and what the wrapped function does when
\* it is awaited
Delays == {0, 1, 3}
WrappedOutcomes ==
    {Ret(PyTrue), Ret(PyFalse), Ret(PyNone), Ret(PyStr("ok")), Ret(PyStr("")),
     Raise("Exception"), Raise("CancelledError"),
     Raise("BaseException")}

InitRetry ==
    /\ helper \in {retry_wrapper(limit, delay, catch_exceptions) :
                    limit \in 0..MaxLimit, delay \in Delays,
                    catch_exceptions \in BOOLEAN}
    /\ coordinator_data = Idle
    /\ query = Idle
    /\ result = Idle
    /\ sensor = Idle
    /\ attr_is_on = Idle
    /\ last_call = Idle
    /\ last_reading = Idle
    /\ network_details = Idle
    /\ entities = Idle

RetryRuns == helper # Idle /\ helper.function = "retry_async"

RetrySleep ==
    /\ RetryRuns /\ helper.pc = "while"
    /\ retry_continues(helper) /\ helper.retries # 0
    /\ helper' = retry_sleep(helper)
    /\ UNCHANGED <<coordinator_data, query, result, sensor, attr_is_on,
                   last_call, last_reading, network_details, entities>>

\* the wrapper goes on to the attempt, after the sleep or past it
RetryAttempt ==
    /\ RetryRuns
    /\ \/ helper.pc = "try"
       \/ helper.pc = "while" /\ retry_continues(helper) /\ helper.retries = 0
    /\ helper' = retry_attempt(helper)
    /\ UNCHANGED <<coordinator_data, query, result, sensor, attr_is_on,
                   last_call, last_reading, network_details, entities>>

\* func completes and the event loop resumes the wrapper
RetryTry ==
    /\ RetryRuns /\ helper.pc = "await"
    /\ \E outcome \in WrappedOutcomes : helper' = retry_try(helper, outcome)
    /\ UNCHANGED <<coordinator_data, query, result, sensor, attr_is_on,
                   last_call, last_reading, network_details, entities>>

RetryReturn ==
    /\ RetryRuns /\ helper.pc = "while" /\ ~retry_continues(helper)
    /\ helper' = retry_return(helper)
    /\ UNCHANGED <<coordinator_data, query, result, sensor, attr_is_on,
                   last_call, last_reading, network_details, entities>>

NextRetry == RetrySleep \/ RetryAttempt \/ RetryTry \/ RetryReturn
SpecRetry == InitRetry /\ [][NextRetry]_vars

\* the event loop resumes the wrapper after every await
FairSpecRetry == SpecRetry /\ WF_vars(NextRetry)

---------------------------------------------------------------------------
(* helpers.alarm_just_dismissed.  An alarm is None or a dict with optional *)
(* status and version; versions are strings of characters, as the alarm    *)
(* records carry them.                                                      *)

\* int(s) of a str: white space around it is dropped, then comes an
\* optional sign, then decimal digits with single underscores between
\* them; ValueError for anything else.  The white space int() drops is,
\* among the characters up to U+00FF, the space, \t, \n, \r, \f, the
\* vertical tab U+000B, the next line U+0085 and the no-break space U+00A0
\* (U+001C to U+001F are not dropped), and the only digits are 0 to 9.
IsSpace(c) == c \in {" ", "\t", "\n", "\r", "\f", "", "", " "}

RECURSIVE lstrip(_)
lstrip(s) ==
    IF s # <<>> /\ IsSpace(Head(s)) THEN lstrip(Tail(s)) ELSE s

RECURSIVE rstrip(_)
rstrip(s) ==
    IF s # <<>> /\ IsSpace(s[Len(s)]) THEN rstrip(SubSeq(s, 1, Len(s) - 1))
    ELSE s

\* digits, with an underscore only between two digits
is_digit_group(s) ==
    /\ s # <<>>
    /\ \A i \in 1..Len(s) :
          \/ IsDigit(s[i])
          \/ /\ s[i] = "_"
             /\ i > 1 /\ i < Len(s)
             /\ IsDigit(s[i - 1]) /\ IsDigit(s[i + 1])

int_of_unsigned(s, sign) ==
    IF is_digit_group(s)
    THEN [ok |-> TRUE, val |-> sign * ToInt(SelectSeq(s, IsDigit))]
    ELSE ValueError

int_of_stripped(s) ==
    IF s # <<>> /\ Head(s) = "-" THEN int_of_unsigned(Tail(s), -1)
    ELSE IF s # <<>> /\ Head(s) = "+" THEN int_of_unsigned(Tail(s), 1)
    ELSE int_of_unsigned(s, 1)

int(v) == int_of_stripped(rstrip(lstrip(v[2])))

\* not alarm
alarm_is_empty(alarm) == alarm = NoData \/ alarm.d = EmptyDict

\* alarm.get("version", "0")
alarm_version(alarm) ==
    IF "version" \in DOMAIN alarm.d THEN alarm.d["version"]
    ELSE PyStr(<<"0">>)

alarm_just_dismissed(alarm, previous_status, previous_version) ==
    IF \/ previous_status \notin {PyStr("SNOOZED"), PyStr("ON")}
       \/ previous_version = PyNone
       \/ alarm_is_empty(alarm)
       \/ Get(alarm.d, "status") \notin {PyStr("OFF"), PyStr("ON")}
       \/ previous_version = Get(alarm.d, "version")
    THEN Ret(PyFalse)
    ELSE IF ~int(alarm_version(alarm)).ok THEN Raise("ValueError")
    ELSE IF ~int(previous_version).ok THEN Raise("ValueError")
    ELSE IF int(alarm_version(alarm)).val > 1 + int(previous_version).val
    THEN Ret(PyFalse)
    ELSE Ret(PyTrue)

AlarmStatuses == {PyStr("OFF"), PyStr("ON"), PyStr("SNOOZED")}
AlarmVersions ==
    {PyStr(<<"1">>), PyStr(<<"2">>), PyStr(<<"3">>), PyStr(<<"4">>),
     PyStr(<<"5">>), PyStr(<<"0", "3">>), PyStr(<<"1", "0">>),
     PyStr(<<"+", "2">>), PyStr(<<" ", "2">>), PyStr(<<"-", "1">>),
     PyStr(<<"", "3">>), PyStr(<<"4", " ">>), PyStr(<<"", "1">>),
     PyStr(<<"x">>)}
Alarms ==
    {NoData}
    \cup {DictData(status @@ version) :
            status \in Optional("status", AlarmStatuses),
            version \in Optional("version", AlarmVersions)}

alarm_call(alarm, previous_status, previous_version) ==
    [function |-> "alarm_just_dismissed", alarm |-> alarm,
     previous_status |-> previous_status,
     previous_version |-> previous_version, outcome |-> Idle]

InitAlarm ==
    /\ helper \in {alarm_call(alarm, previous_status, previous_version) :
                    alarm \in Alarms,
                    previous_status \in {PyNone} \cup AlarmStatuses,
                    previous_version \in {PyNone} \cup AlarmVersions}
    /\ coordinator_data = Idle
    /\ query = Idle
    /\ result = Idle
    /\ sensor = Idle
    /\ attr_is_on = Idle
    /\ last_call = Idle
    /\ last_reading = Idle
    /\ network_details = Idle
    /\ entities = Idle

AlarmJustDismissed ==
    /\ helper # Idle /\ helper.function = "alarm_just_dismissed"
    /\ helper.outcome = Idle
    /\ helper' = [helper EXCEPT !.outcome =
                    alarm_just_dismissed(helper.alarm, helper.previous_status,
                                         helper.previous_version)]
    /\ UNCHANGED <<coordinator_data, query, result, sensor, attr_is_on,
                   last_call, last_reading, network_details, entities>>

NextAlarm == AlarmJustDismissed
SpecAlarm == InitAlarm /\ [][NextAlarm]_vars

---------------------------------------------------------------------------
(* helpers._catch_login_errors and report_relogin_required.  An object is  *)
(* a record of its class and of the attributes it has; hasattr is          *)
(* membership in the domain of the record.                                  *)

NoneObject == [class |-> "NoneType"]
HomeAssistant == [class |-> "HomeAssistant"]
\* the local hass before any assignment to it
Unbound == [class |-> "unbound"]

AlexaLogin(email, status) ==
    [class |-> "AlexaLogin", email |-> email, status |-> status]
\* an entity of the integration: it keeps its login and the hass it was
\* added to, None before that
AlexaMedia(login, hass) ==
    [class |-> "AlexaMedia", _login |-> login, hass |-> hass,
     check_login_changes |-> "method"]

hasattr(object, name) == name \in DOMAIN object
\* truth value of an object: every object but None is true
bool(object) == object.class # "NoneType"

\* report_relogin_required(hass, login, email): TRUE when the event is fired
report_relogin_required(hass, login, email) ==
    /\ bool(hass) /\ bool(login) /\ Truthy(email)
    /\ DOMAIN login.status # {}

\* wrapper entry up to "await func(*args, **kwargs)"
catch_login_errors(instance, args, kwargs) ==
    [function |-> "_catch_login_errors",
     instance |-> IF instance = NoneObject /\ args # <<>> THEN args[1]
                  ELSE instance,
     all_args |-> args \o kwargs,
     login |-> NoneObject, hass |-> Unbound, email |-> PyNone,
     raised |-> "", pc |-> "func",
     trace |-> IF hasattr(IF instance = NoneObject /\ args # <<>>
                          THEN args[1] ELSE instance, "check_login_changes")
               THEN <<"check_login_changes">> ELSE <<>>,
     outcome |-> Idle]

\* the first argument the loop over all_args stops at, 0 when it stops at
\* none
first_login_arg(all_args) ==
    IF \E i \in 1..Len(all_args) :
          all_args[i].class = "AlexaLogin" \/ hasattr(all_args[i], "_login")
    THEN CHOOSE i \in 1..Len(all_args) :
          /\ all_args[i].class = "AlexaLogin" \/ hasattr(all_args[i], "_login")
          /\ \A j \in 1..(i - 1) :
                ~(all_args[j].class = "AlexaLogin"
                    \/ hasattr(all_args[j], "_login"))
    ELSE 0

\* getattr(object, name), AttributeError when the object has none
getattr(object, name) ==
    IF hasattr(object, name) THEN Ret(object[name])
    ELSE Raise("AttributeError")

catch_done(w, events, outcome) ==
    [w EXCEPT !.pc = "done", !.trace = w.trace \o events,
              !.outcome = outcome]

\* the end of the except clause: hass is None when still unbound, then
\* report_relogin_required and return None
catch_report(w, login, hass, email) ==
    catch_done([w EXCEPT !.login = login, !.email = email,
                         !.hass = IF hass = Unbound THEN NoneObject
                                  ELSE hass],
               IF report_relogin_required(
                     IF hass = Unbound THEN NoneObject ELSE hass, login, email)
               THEN <<"alexa_media_relogin_required">> ELSE <<>>,
               Ret(PyNone))

\* "if login:" with the login and hass the search left: the wrapper goes
\* on to await login.test_loggedin(), or reports at once
catch_located(w, login, hass) ==
    IF bool(login)
    THEN [w EXCEPT !.login = login, !.hass = hass, !.email = login.email,
                   !.pc = "test_loggedin"]
    ELSE catch_report(w, login, hass, PyNone)

\* except AlexapyLoginError: the search for login and hass
catch_login_error(w) ==
    IF bool(w.instance)
    THEN IF hasattr(w.instance, "_login")
         THEN IF IsRaise(getattr(w.instance, "hass"))
              THEN catch_done(w, <<>>, Raise("AttributeError"))
              ELSE catch_located(w, w.instance["_login"], w.instance["hass"])
         ELSE catch_located(w, NoneObject, Unbound)
    ELSE IF first_login_arg(w.all_args) = 0
         THEN catch_located(w, NoneObject, Unbound)
    ELSE IF w.all_args[first_login_arg(w.all_args)].class = "AlexaLogin"
         THEN catch_located(w, w.all_args[first_login_arg(w.all_args)],
                            Unbound)
    \* login = instance._login, of the instance and not of arg
    ELSE IF IsRaise(getattr(w.instance, "_login"))
         THEN catch_done(w, <<>>, Raise("AttributeError"))
    ELSE IF IsRaise(getattr(w.instance, "hass"))
         THEN catch_done(w, <<>>, Raise("AttributeError"))
    ELSE catch_located(w, w.instance["_login"], w.instance["hass"])

\* result = await func(*args, **kwargs) and the except clauses up to the
\* next await
catch_func(w, outcome) ==
    IF IsRet(outcome)
    THEN catch_done(w, <<"func">>, outcome)
    ELSE IF outcome.exc = "AlexapyLoginCloseRequested"
    THEN catch_done([w EXCEPT !.raised = outcome.exc], <<"func">>, Ret(PyNone))
    ELSE IF outcome.exc = "AlexapyLoginError"
    THEN catch_login_error([w EXCEPT !.raised = outcome.exc,
                                     !.trace = w.trace \o <<"func">>])
    ELSE catch_done([w EXCEPT !.raised = outcome.exc], <<"func">>, outcome)

\* if await login.test_loggedin(): return None; else report
catch_test_loggedin(w, loggedin) ==
    IF loggedin
    THEN catch_done(w, <<"test_loggedin: True">>, Ret(PyNone))
    ELSE catch_report([w EXCEPT !.trace = w.trace \o <<"test_loggedin: False">>],
                      w.login, w.hass, w.email)

LoginStatus == [login_successful |-> TRUE]
Email == PyStr(<<"a", "@", "b">>)
Logins ==
    {AlexaLogin(Email, LoginStatus),
     AlexaLogin(Email, EmptyDict),
     AlexaLogin(PyStr(<<>>), LoginStatus)}
Entities ==
    {AlexaMedia(login, hass) :
        login \in {NoneObject} \cup Logins,
        hass \in {NoneObject, HomeAssistant}}
Arguments ==
    {NoneObject, HomeAssistant, AlexaLogin(Email, LoginStatus),
     AlexaMedia(AlexaLogin(Email, LoginStatus), HomeAssistant),
     AlexaMedia(AlexaLogin(Email, EmptyDict), HomeAssistant)}
ArgumentLists ==
    {<<>>} \cup {<<a>> : a \in Arguments}
        \cup {<<a, b>> : a \in Arguments, b \in Arguments}
KeywordLists == {<<>>} \cup {<<a>> : a \in Arguments}
FuncOutcomes ==
    {Ret(PyTrue), Ret(PyNone), Raise("AlexapyLoginError"),
     Raise("AlexapyLoginCloseRequested"), Raise("Exception")}

InitLogin ==
    /\ helper \in {catch_login_errors(instance, args, kwargs) :
                    instance \in {NoneObject} \cup Entities,
                    args \in ArgumentLists, kwargs \in KeywordLists}
    /\ coordinator_data = Idle
    /\ query = Idle
    /\ result = Idle
    /\ sensor = Idle
    /\ attr_is_on = Idle
    /\ last_call = Idle
    /\ last_reading = Idle
    /\ network_details = Idle
    /\ entities = Idle

CatchRuns == helper # Idle /\ helper.function = "_catch_login_errors"

CatchFunc ==
    /\ CatchRuns /\ helper.pc = "func"
    /\ \E outcome \in FuncOutcomes : helper' = catch_func(helper, outcome)
    /\ UNCHANGED <<coordinator_data, query, result, sensor, attr_is_on,
                   last_call, last_reading, network_details, entities>>

CatchTestLoggedin ==
    /\ CatchRuns /\ helper.pc = "test_loggedin"
    /\ \E loggedin \in BOOLEAN :
          helper' = catch_test_loggedin(helper, loggedin)
    /\ UNCHANGED <<coordinator_data, query, result, sensor, attr_is_on,
                   last_call, last_reading, network_details, entities>>

NextLogin == CatchFunc \/ CatchTestLoggedin
SpecLogin == InitLogin /\ [][NextLogin]_vars

---------------------------------------------------------------------------
(* The components side by side *)

Init ==
    InitResolver \/ InitSensors \/ InitClassifier \/ InitAppliances \/ InitRetry
        \/ InitAlarm \/ InitLogin
Next ==
    NextResolver \/ NextSensors \/ NextClassifier \/ NextAppliances
        \/ NextRetry \/ NextAlarm \/ NextLogin
Spec == Init /\ [][Next]_vars

---------------------------------------------------------------------------
(* Properties of the classifier.  The skip rule is restated here from the  *)
(* specification, independently of the operators above.                    *)

Parsed == entities # Idle

\* the appliances of the graph in traversal order
Graph == appliance_walk(network_details)
GraphIds == {Graph[i]["applianceId"] : i \in 1..Len(Graph)}

\* the flattened graph maps an id to the last appliance that carries it
Current(id) ==
    Graph[CHOOSE i \in 1..Len(Graph) :
             /\ Graph[i]["applianceId"] = id
             /\ \A j \in (i + 1)..Len(Graph) : Graph[j]["applianceId"] # id]

\* the ids of the graphs that have the form of a bridged device: the
\* prefix, hexadecimal digits or dashes, "#", and digits
BridgedForm ==
    {BridgeId \o <<"#","1">>, BridgeId \o <<"#","2","2">>,
     SonarPrefix \o <<"A","B","-","1","2","#","1">>,
     SonarPrefix \o <<"c","d","-","3","4","#","1">>}

PartBeforeHash(id) ==
    SubSeq(id, 1, (CHOOSE p \in 1..Len(id) : id[p] = "#") - 1)

Connected(a) == "connectedVia" \in DOMAIN a /\ a["connectedVia"] # ""

SkipRule(a) ==
    /\ Connected(a)
    /\ a["applianceId"] \in BridgedForm
    /\ PartBeforeHash(a["applianceId"]) \in GraphIds
    /\ "manufacturerName" \in DOMAIN Current(PartBeforeHash(a["applianceId"]))
    /\ Current(PartBeforeHash(a["applianceId"]))["manufacturerName"]
          \in {"t0bst4r", "Matterbridge"}

Skipped(a) ==
    \E k \in 1..Len(entities.log) :
        entities.log[k] = LogEntry("Found Home Assistant bridge, skipping", a)

Listed(id) ==
    \E c \in Categories : \E k \in 1..Len(entities.outcome.value[c]) :
        entities.outcome.value[c][k]["appliance_id"] = id

\* C1: parse_alexa_entities skips an appliance, with a debug log and no
\* descriptor in any of the nine lists, exactly when its connectedVia is
\* non-empty, its applianceId has the bridged form, an appliance whose id
\* is the part before "#" is in the flattened graph, and that appliance's
\* manufacturerName is "t0bst4r" or "Matterbridge"; a connected device of
\* these graphs (each a contact sensor) is listed otherwise; and
\* get_device_bridge returns nothing for an appliance without connectedVia.
C1_KnownBridgeDevicesSkipped ==
    Parsed =>
        /\ IsRet(entities.outcome)
        /\ \A id \in GraphIds :
              /\ Skipped(Current(id)) <=> SkipRule(Current(id))
              /\ SkipRule(Current(id)) => ~Listed(id)
              /\ (Connected(Current(id)) /\ ~SkipRule(Current(id))) => Listed(id)
              /\ ~Connected(Current(id)) =>
                    get_device_bridge(Current(id),
                        flatten_appliances(Graph, <<>>).value) = NoData

\* C1 witness: a device connected via an Echo, whose bridge is in the graph
\* with manufacturer "Matterbridge", was skipped and logged, and every list
\* is empty although the device is tagged as a contact sensor.
C1_Witness ==
    /\ Parsed
    /\ \E id \in GraphIds :
          /\ SkipRule(Current(id))
          /\ Skipped(Current(id))
          /\ ~Listed(id)
          /\ Current(PartBeforeHash(id))["manufacturerName"] = "Matterbridge"
          /\ \A c \in Categories : entities.outcome.value[c] = <<>>

---------------------------------------------------------------------------
(* Properties of the resolver.  The matching rule, the sample instants and *)
(* their order are restated here from the specification, independently of  *)
(* the operators above.                                                    *)

Called == coordinator_data # Idle /\ query # Idle

\* the snapshot is empty or None, or has no entry for the requested entity
NoEntry ==
    \/ coordinator_data.t = "NoneType"
    \/ query.entity_id \notin DOMAIN coordinator_data.d

\* the capability-state list of the requested entity
Asked == coordinator_data.d[query.entity_id]

\* the matching rule: namespace and name equal the targets, and the instance
\* target is unset or equals the record's instance
RuleMatches(r) ==
    /\ "namespace" \in DOMAIN r /\ r["namespace"] = query.namespace
    /\ "name" \in DOMAIN r /\ r["name"] = query.name
    /\ \/ query.instance = PyNone
       \/ "instance" \in DOMAIN r /\ r["instance"] = query.instance

\* the position of the first record, in list order, that matches; 0 if none
FirstMatch ==
    IF \E i \in 1..Len(Asked) : RuleMatches(Asked[i])
    THEN CHOOSE i \in 1..Len(Asked) :
            RuleMatches(Asked[i]) /\ \A j \in 1..(i - 1) : ~RuleMatches(Asked[j])
    ELSE 0

\* the instants the well-formed sample strings of the snapshots denote
HasParseableTime(r) ==
    /\ "timeOfSample" \in DOMAIN r
    /\ r["timeOfSample"] \in {PyStr(TsExample), PyStr(TsOffset), PyStr(TsMicroBefore)}
SampleTime(r) ==
    IF r["timeOfSample"] = PyStr(TsMicroBefore)
    THEN [day |-> 738885, sec |-> 86399, us |-> 999999]
    ELSE [day |-> 738886, sec |-> 0, us |-> 0]
Earlier(a, b) ==
    \/ a.day < b.day
    \/ a.day = b.day /\ a.sec < b.sec
    \/ a.day = b.day /\ a.sec = b.sec /\ a.us < b.us

ValueOf(r) == IF "value" \in DOMAIN r THEN r["value"] ELSE PyNone

\* C2: with a cutoff, when the first matching record carries a parseable
\* timeOfSample t, the result is that record's value exactly when
\* t >= since (a sample at the cutoff is accepted) and absent when t < since.
C2_CutoffDecidesFirstMatch ==
    (Called /\ ~NoEntry /\ query.since # PyNone /\ FirstMatch # 0) =>
        (HasParseableTime(Asked[FirstMatch]) =>
            /\ Earlier(SampleTime(Asked[FirstMatch]), query.since[2])
                  => result = Ret(PyNone)
            /\ ~Earlier(SampleTime(Asked[FirstMatch]), query.since[2])
                  => result = Ret(ValueOf(Asked[FirstMatch]))
            /\ ValueOf(Asked[FirstMatch]) # PyNone =>
                  (result = Ret(ValueOf(Asked[FirstMatch]))
                     <=> ~Earlier(SampleTime(Asked[FirstMatch]), query.since[2])))

\* C2 witness: a sample exactly at the cutoff, given at another UTC offset,
\* was returned.
C2_Witness ==
    /\ Called /\ ~NoEntry /\ FirstMatch # 0
    /\ query.since = PyDatetime(AtExample)
    /\ Get(Asked[FirstMatch], "timeOfSample") = PyStr(TsOffset)
    /\ result = Ret(PyStr("ON"))

\* a later record that also matches
LaterMatches == {j \in (FirstMatch + 1)..Len(Asked) : RuleMatches(Asked[j])}

\* stale: a cutoff is given and the record's parseable time is before it
Stale(r) ==
    /\ query.since # PyNone
    /\ HasParseableTime(r)
    /\ Earlier(SampleTime(r), query.since[2])

\* C3: the first matching record alone decides the result: absent if it is
\* stale even when a later matching record is fresh, and its value if it is
\* acceptable even when later matching records carry other values.
C3_FirstMatchDecides ==
    (Called /\ ~NoEntry /\ FirstMatch # 0 /\ LaterMatches # {}) =>
        /\ Stale(Asked[FirstMatch]) => result = Ret(PyNone)
        /\ ~Stale(Asked[FirstMatch]) => result = Ret(ValueOf(Asked[FirstMatch]))

\* C3 witness: the first match was stale, a later match with a value was
\* fresh, and the result was absent.
C3_Witness ==
    /\ Called /\ ~NoEntry /\ FirstMatch # 0
    /\ Stale(Asked[FirstMatch])
    /\ \E j \in LaterMatches : ~Stale(Asked[j]) /\ ValueOf(Asked[j]) # PyNone
    /\ result = Ret(PyNone)

\* C4: a record matches when namespace and name equal the targets and the
\* instance target is unset or equal: a returned value is the value of the
\* first record matching by that rule, nothing is returned when none
\* matches, and with instances "1" and "2" in that order a query for "2"
\* yields the second record's value, a query without instance the first's.
C4_MatchingRule ==
    (Called /\ ~NoEntry) =>
        /\ FirstMatch = 0 => result = Ret(PyNone)
        /\ FirstMatch # 0 =>
              result \in {Ret(PyNone), Ret(ValueOf(Asked[FirstMatch]))}
        /\ (/\ Asked = <<Range("1"), Range("2")>>
            /\ query.namespace = PyStr("Alexa.RangeController")
            /\ query.name = PyStr("rangeValue")) =>
              /\ query.instance = PyStr("2") => result = Ret(PyStr("2"))
              /\ query.instance = PyNone => result = Ret(PyStr("1"))

\* C4 witness: instances "1" and "2" in that order, queried for "2".
C4_Witness ==
    /\ Called /\ ~NoEntry
    /\ Asked = <<Range("1"), Range("2")>>
    /\ query.namespace = PyStr("Alexa.RangeController")
    /\ query.name = PyStr("rangeValue")
    /\ query.instance = PyStr("2")
    /\ result = Ret(PyStr("2"))

\* no timeOfSample, or one that is not in the fixed format
LacksParseableTime(r) ==
    \/ "timeOfSample" \notin DOMAIN r
    \/ r["timeOfSample"] \in {PyStr(TsMalformed), PyStr(TsEmpty)}

\* C5: a matching record without timeOfSample, or with one that cannot be
\* parsed, is accepted for every since: its value is returned, no error.
C5_UnparseableTimeAccepted ==
    (Called /\ ~NoEntry /\ FirstMatch # 0) =>
        (LacksParseableTime(Asked[FirstMatch]) =>
            result = Ret(ValueOf(Asked[FirstMatch])))

\* C5 witness: a malformed timeOfSample under a cutoff later than every
\* sample, and the value was returned.
C5_Witness ==
    /\ Called /\ ~NoEntry /\ FirstMatch # 0
    /\ Get(Asked[FirstMatch], "timeOfSample") = PyStr(TsMalformed)
    /\ query.since = PyDatetime(SecondAfter)
    /\ result = Ret(PyStr("ON"))

\* C6: with an empty or None snapshot, or no entry for the requested
\* entity, the resolver returns absent without raising, whatever the
\* namespace, name, since and instance.
C6_NoEntryIsAbsent ==
    (Called /\ NoEntry) => result = Ret(PyNone)

\* C6 witness: a non-empty snapshot without the requested entity.
C6_Witness ==
    /\ Called
    /\ coordinator_data.t = "dict"
    /\ DOMAIN coordinator_data.d = {"E2"}
    /\ query.entity_id = "E1"
    /\ result = Ret(PyNone)

---------------------------------------------------------------------------
(* Properties of the binary sensors *)

\* the entity under observation is of one of the classes
SensorIs(classes) == sensor # Idle /\ sensor.class \in classes

Updated == last_call.method = "_handle_coordinator_update"
ResolvedAbsent == last_call.resolved = Ret(PyNone)
ResolvedValue == IsRet(last_call.resolved) /\ last_call.resolved # Ret(PyNone)

\* C7 as stated: after a sequence of coordinator updates a MotionSensor's
\* is_on is true only if the most recent update whose resolved detection
\* state was not absent delivered exactly "DETECTED"; an update delivering
\* "NOT_DETECTED" or any other value sets is_on to false.  (Read in the
\* states an update has just produced, so at least one update has run.)
C7_OnOnlyAfterDetectedUpdate ==
    SensorIs({"MotionSensor"}) =>
        /\ (Updated /\ attr_is_on = PyTrue) =>
              /\ last_reading # Idle
              /\ last_reading.by = "_handle_coordinator_update"
              /\ last_reading.value = PyStr("DETECTED")
        /\ (Updated /\ ResolvedValue
                /\ last_call.resolved # Ret(PyStr("DETECTED")))
              => attr_is_on = PyFalse

\* C7 amended: is_on is true only if the most recent reading that was not
\* absent, the read at construction or a later coordinator update,
\* delivered exactly "DETECTED"; an update delivering "NOT_DETECTED" or any
\* other value sets is_on to false.
C7_OnOnlyAfterDetectedReading ==
    SensorIs({"MotionSensor"}) =>
        /\ attr_is_on = PyTrue =>
              /\ last_reading # Idle
              /\ last_reading.value = PyStr("DETECTED")
        /\ (Updated /\ ResolvedValue
                /\ last_call.resolved # Ret(PyStr("DETECTED")))
              => attr_is_on = PyFalse

\* C7 witness: a MotionSensor that was on handled an update delivering an
\* unexpected string and went off.
C7_Witness ==
    /\ SensorIs({"MotionSensor"})
    /\ Updated
    /\ last_call.resolved = Ret(PyStr("GARBAGE"))
    /\ last_call.before = PyTrue
    /\ attr_is_on = PyFalse

\* C8: for every acoustic event sensor, an update whose resolved value is
\* "DETECTED" completes without raising and leaves is_on true; one
\* delivering "NOT_DETECTED" or any other non-absent value completes and
\* leaves is_on false.
C8_AcousticUpdateMapsValue ==
    (SensorIs(AcousticEventSensors) /\ Updated /\ ResolvedValue) =>
        /\ last_call.outcome = Ret(PyNone)
        /\ attr_is_on = PyBool(last_call.resolved = Ret(PyStr("DETECTED")))

\* C9: for MotionSensor and every acoustic event sensor, an update whose
\* resolved detection value is absent leaves is_on exactly as it was.
C9_AbsentUpdateKeepsIsOn ==
    (SensorIs(AcousticEventSensors \cup {"MotionSensor"})
        /\ Updated /\ ResolvedAbsent) =>
        /\ attr_is_on = last_call.before
        /\ last_call.outcome = Ret(PyNone)

\* C9 witness: an acoustic sensor that was on handled an update with no
\* value for its key and is still on.
C9_Witness ==
    /\ SensorIs(AcousticEventSensors)
    /\ Updated /\ ResolvedAbsent
    /\ last_call.before = PyTrue
    /\ attr_is_on = PyTrue

\* C10: for AlexaMotion, an update (and any later is_on read) in which the
\* resolved motion detection state is absent causes no state change: is_on
\* keeps the value it had after the previous non-absent reading.
C10_AlexaMotionAbsentKeepsIsOn ==
    (SensorIs({"AlexaMotion"}) /\ ResolvedAbsent /\ last_reading # Idle) =>
        /\ Updated =>
              /\ attr_is_on = last_call.before
              /\ attr_is_on = PyBool(last_reading.value = PyStr("DETECTED"))
        /\ last_call.method = "is_on" =>
              last_call.outcome
                 = Ret(PyBool(last_reading.value = PyStr("DETECTED")))

\* no reading of the entity, by __init__ or by an update, has delivered a
\* detection value yet
NeverRead == last_reading = Idle

\* C11: a MotionSensor or an acoustic event sensor constructed while the
\* resolver returns absent for its detection value reports no value
\* (unavailable) as is_on on that first read, rather than off (false).
C11_FirstReadAbsentIsUnavailable ==
    (SensorIs(AcousticEventSensors \cup {"MotionSensor"})
        /\ NeverRead /\ last_call.method = "is_on") =>
        last_call.outcome = Ret(PyNone)

\* the snapshot is None or empty, or has no entry for the entity
SnapshotLacksEntity ==
    \/ coordinator_data.t = "NoneType"
    \/ sensor.alexa_entity_id \notin DOMAIN coordinator_data.d

\* a property of the entity has just been read
JustRead(method) == last_call' # last_call /\ last_call'.method = method

\* C12: for AlexaContact and ContactSensor, in every coordinator state
\* assumed_state is true exactly when the snapshot is empty or has no entry
\* for the sensor's entity id, and whenever that is so is_on is not true.
C12_AssumedStateIffNoEntry ==
    [][SensorIs(ContactSensors) =>
          /\ JustRead("assumed_state") =>
                last_call'.outcome = Ret(PyBool(SnapshotLacksEntity))
          /\ (JustRead("is_on") /\ SnapshotLacksEntity) =>
                last_call'.outcome \in {Ret(PyFalse), Ret(PyNone)}]_vars

\* C12 witness: an AlexaContact whose snapshot holds another entity only
\* has just reported assumed_state true.
C12_Witness ==
    /\ SensorIs({"AlexaContact"})
    /\ coordinator_data.t = "dict"
    /\ DOMAIN coordinator_data.d = {"E2"}
    /\ last_call.method = "assumed_state"
    /\ last_call.outcome = Ret(PyTrue)


\* ---------------------------------------------------------------------
\* Properties of the classifier on appliances of every shape
\* ---------------------------------------------------------------------

\* the appliance has every key the classifier indexes
HasExpectedKeys(a) == ExpectedKeys \subseteq DOMAIN a

SomeLacksKey == \E i \in 1..Len(Graph) : ~HasExpectedKeys(Graph[i])

\* C13: when an appliance of the graph lacks one of the keys modelName,
\* friendlyDescription, friendlyName, entityId or capabilities,
\* parse_alexa_entities still returns its lists, and every well-formed
\* appliance of the graph (here a connected contact sensor) has its
\* descriptor in them: the pass is not aborted.
C13_MalformedApplianceSkippedAlone ==
    (Parsed /\ SomeLacksKey) =>
        /\ IsRet(entities.outcome)
        /\ \A i \in 1..Len(Graph) :
              (HasExpectedKeys(Graph[i]) /\ Connected(Graph[i])) =>
                  Listed(Graph[i]["applianceId"])


\* the predicate called, and its argument
PredicateCalled(function) ==
    network_details # Idle /\ query # Idle /\ query.function = function

VoiceEnabled(a) ==
    /\ "applianceTypes" \in DOMAIN a
    /\ \E i \in 1..Len(a["applianceTypes"]) :
          a["applianceTypes"][i] = "ALEXA_VOICE_ENABLED"

SkillDerived(a) ==
    /\ "driverIdentity" \in DOMAIN a
    /\ "namespace" \in DOMAIN a["driverIdentity"]
    /\ a["driverIdentity"]["namespace"] = "SKILL"

Manufacturer(a, names) ==
    "manufacturerName" \in DOMAIN a /\ a["manufacturerName"] \in names

Described(a, description) ==
    "friendlyDescription" \in DOMAIN a
        /\ a["friendlyDescription"] = description

\* C14: for an appliance without connectedVia, without ALEXA_VOICE_ENABLED
\* among its types and with manufacturerName Ledvance, Sengled or Amazon,
\* is_local returns True when driverIdentity.namespace is absent or not
\* "SKILL" and False when it is "SKILL", whatever the applianceId.
C14_AllowListedLocalUnlessSkill ==
    (PredicateCalled("is_local")
        /\ ~Connected(query.appliance)
        /\ ~VoiceEnabled(query.appliance)
        /\ Manufacturer(query.appliance, {"Ledvance", "Sengled", "Amazon"})) =>
            result = Ret(~SkillDerived(query.appliance))

\* C14 witness: a Sengled appliance with a zigbee id and namespace "SKILL"
\* is not local, and one with another namespace is
C14_Witness ==
    /\ PredicateCalled("is_local")
    /\ ~Connected(query.appliance)
    /\ ~VoiceEnabled(query.appliance)
    /\ Manufacturer(query.appliance, {"Sengled"})
    /\ query.appliance["applianceId"] = ZigbeeId
    /\ SkillDerived(query.appliance)
    /\ result = Ret(FALSE)

\* C15: an appliance without connectedVia and without ALEXA_VOICE_ENABLED
\* whose manufacturer and description are "Third Reality" and "Third
\* Reality smart device", or "Amazon" and "Amazon Smart Plug", is local
\* whether or not its driverIdentity.namespace is "SKILL".
C15_NamedDevicesAlwaysLocal ==
    (PredicateCalled("is_local")
        /\ ~Connected(query.appliance)
        /\ ~VoiceEnabled(query.appliance)
        /\ \/ /\ Manufacturer(query.appliance, {"Third Reality"})
              /\ Described(query.appliance, "Third Reality smart device")
           \/ /\ Manufacturer(query.appliance, {"Amazon"})
              /\ Described(query.appliance, "Amazon Smart Plug")) =>
            result = Ret(TRUE)


Returned == Parsed /\ IsRet(entities.outcome)

\* the list of a category holds a descriptor of the appliance
DescriptorIn(category, a) ==
    \E k \in 1..Len(entities.outcome.value[category]) :
        /\ entities.outcome.value[category][k]["appliance_id"] = a["applianceId"]
        /\ entities.outcome.value[category][k]["id"] = a["entityId"]

\* C16: every descriptor of the air_quality list is also in the temperature
\* list, with the same id and appliance_id, local or not; and an appliance
\* described as "Amazon Indoor Air Quality Monitor" is in the temperature
\* list only when it is in the air_quality list.
C16_AirQualityAlsoTemperature ==
    Returned =>
        /\ \A k \in 1..Len(entities.outcome.value["air_quality"]) :
           \E j \in 1..Len(entities.outcome.value["temperature"]) :
              /\ entities.outcome.value["temperature"][j]["id"]
                    = entities.outcome.value["air_quality"][k]["id"]
              /\ entities.outcome.value["temperature"][j]["appliance_id"]
                    = entities.outcome.value["air_quality"][k]["appliance_id"]
        /\ \A id \in GraphIds :
              (Described(Current(id), "Amazon Indoor Air Quality Monitor")
                  /\ DescriptorIn("temperature", Current(id))) =>
                      DescriptorIn("air_quality", Current(id))

\* C16 witness: an air quality monitor that is not local (no connectedVia,
\* no manufacturer, a plain id) is in both lists
C16_Witness ==
    /\ Returned
    /\ \E id \in GraphIds :
          /\ id = PlainId
          /\ ~Connected(Current(id))
          /\ "manufacturerName" \notin DOMAIN Current(id)
          /\ DescriptorIn("air_quality", Current(id))
          /\ DescriptorIn("temperature", Current(id))




\* the entries of the identifier list, and whether an entry carries a
\* serial number
Identifiers(a) ==
    IF "alexaDeviceIdentifierList" \in DOMAIN a
    THEN a["alexaDeviceIdentifierList"] ELSE <<>>

CarriesSerial(entry) ==
    /\ entry.t = "dict"
    /\ "dmsDeviceSerialNumber" \in DOMAIN entry.d
    /\ entry.d["dmsDeviceSerialNumber"] \notin {PyNone, PyStr("")}

FirstSerialOrEntityId(a) ==
    IF \E i \in 1..Len(Identifiers(a)) : CarriesSerial(Identifiers(a)[i])
    THEN Identifiers(a)[CHOOSE i \in 1..Len(Identifiers(a)) :
              /\ CarriesSerial(Identifiers(a)[i])
              /\ \A j \in 1..(i - 1) : ~CarriesSerial(Identifiers(a)[j])]
            .d["dmsDeviceSerialNumber"][2]
    ELSE a["entityId"]

\* C18: the device_serial of every descriptor is the serial number of the
\* first entry of the appliance's alexaDeviceIdentifierList that carries
\* one (a later entry's when the earlier ones carry none), and the
\* entityId only when no entry carries one.
C18_FirstSerialAnywhere ==
    Returned =>
        \A id \in GraphIds : \A c \in Categories :
        \A k \in 1..Len(entities.outcome.value[c]) :
            entities.outcome.value[c][k]["appliance_id"] = id =>
                entities.outcome.value[c][k]["device_serial"]
                    = FirstSerialOrEntityId(Current(id))

\* a capability that offers the property of the interface
Offers(cap, interface, property) ==
    /\ cap["interfaceName"] = interface
    /\ "properties" \in DOMAIN cap
    /\ \/ cap["properties"]["retrievable"]
       \/ cap["properties"]["proactivelyReported"]
    /\ \E i \in 1..Len(cap["properties"]["supported"]) :
          cap["properties"]["supported"][i] = property

\* a capability with no properties or with both flags false
Unusable(cap) ==
    \/ "properties" \notin DOMAIN cap
    \/ /\ ~cap["properties"]["retrievable"]
       /\ ~cap["properties"]["proactivelyReported"]

Tagged(a, tag) ==
    /\ "applianceTypes" \in DOMAIN a
    /\ \E i \in 1..Len(a["applianceTypes"]) : a["applianceTypes"][i] = tag

\* C19: has_capability returns True exactly when one capability of the
\* appliance has the interface name, has properties with retrievable or
\* proactivelyReported true, and lists the property in supported; and an
\* appliance all of whose capabilities have no properties or both flags
\* false is in no list, except contact_sensor and motion_sensor by its
\* type tag.
C19_UsableCapabilityOnly ==
    /\ (PredicateCalled("has_capability")
            /\ "capabilities" \in DOMAIN query.appliance) =>
          result = Ret(\E k \in 1..Len(query.appliance["capabilities"]) :
                          Offers(query.appliance["capabilities"][k],
                                 query.interface_name, query.property_name))
    /\ Returned =>
          \A id \in GraphIds : \A c \in Categories :
              (/\ \A k \in 1..Len(Current(id)["capabilities"]) :
                     Unusable(Current(id)["capabilities"][k])
               /\ DescriptorIn(c, Current(id))) =>
                  \/ c = "contact_sensor" /\ Tagged(Current(id), "CONTACT_SENSOR")
                  \/ c = "motion_sensor" /\ Tagged(Current(id), "MOTION_SENSOR")

\* C19 witness: one capability has the interface and a flag but not the
\* property, another has the property under another interface, and
\* has_capability returns False
C19_Witness ==
    /\ PredicateCalled("has_capability")
    /\ query.interface_name = "Alexa.PowerController"
    /\ query.property_name = "powerState"
    /\ "capabilities" \in DOMAIN query.appliance
    /\ query.appliance["capabilities"]
          = <<Capability("Alexa.PowerController", Properties(TRUE, FALSE, <<>>)),
              Usable("Alexa.Other", "powerState")>>
    /\ result = Ret(FALSE)

\* locality as is_local computes it, for the ids of these graphs
LocalRule(a) ==
    \/ Connected(a)
    \/ IF VoiceEnabled(a) \/ Manufacturer(a, {"Ledvance", "Sengled", "Amazon"})
       THEN ~SkillDerived(a)
       ELSE \/ /\ Manufacturer(a, {"Third Reality"})
               /\ Described(a, "Third Reality smart device")
            \/ a["applianceId"] = ZigbeeId

UsablePower(a) ==
    \E k \in 1..Len(a["capabilities"]) :
        Offers(a["capabilities"][k], "Alexa.PowerController", "powerState")

Redeclared(a) ==
    "customerDefinedDeviceType" \in DOMAIN a
        /\ a["customerDefinedDeviceType"] = "LIGHT"

\* C20: a local appliance with a usable powerState capability and the
\* SMARTPLUG tag is in smart_switch when its customerDefinedDeviceType is
\* not "LIGHT", and in light and not in smart_switch when it is; no
\* appliance with customerDefinedDeviceType "LIGHT" is in smart_switch, and
\* no appliance that is not local is in light or smart_switch.
C20_PlugIsSwitchOrLight ==
    Returned =>
        \A id \in GraphIds :
            /\ (/\ LocalRule(Current(id))
                /\ UsablePower(Current(id))
                /\ Tagged(Current(id), "SMARTPLUG")) =>
                    IF Redeclared(Current(id))
                    THEN /\ DescriptorIn("light", Current(id))
                         /\ ~DescriptorIn("smart_switch", Current(id))
                    ELSE DescriptorIn("smart_switch", Current(id))
            /\ Redeclared(Current(id)) =>
                  ~DescriptorIn("smart_switch", Current(id))
            /\ ~LocalRule(Current(id)) =>
                  /\ ~DescriptorIn("light", Current(id))
                  /\ ~DescriptorIn("smart_switch", Current(id))

\* C20 witness: a smart plug redeclared as a light, local by connectedVia,
\* is in light and not in smart_switch
C20_Witness ==
    /\ Returned
    /\ \E id \in GraphIds :
          /\ Connected(Current(id))
          /\ Tagged(Current(id), "SMARTPLUG")
          /\ ~Tagged(Current(id), "LIGHT")
          /\ Redeclared(Current(id))
          /\ UsablePower(Current(id))
          /\ DescriptorIn("light", Current(id))
          /\ ~DescriptorIn("smart_switch", Current(id))


---------------------------------------------------------------------------
(* Properties of retry_async, over the trace of sleeps and calls of one    *)
(* wrapper call                                                            *)

RetryDone == RetryRuns /\ helper.pc = "done"

IsCall(e) == e.event = "call"
IsSleep(e) == e.event = "sleep"
CallsIn(trace) == {i \in 1..Len(trace) : IsCall(trace[i])}
SleepsIn(trace) == {i \in 1..Len(trace) : IsSleep(trace[i])}

\* the values of these runs that Python takes as true
TruthyValues == {PyTrue, PyStr("ok")}
Succeeded(e) ==
    IsCall(e) /\ e.outcome.kind = "return" /\ e.outcome.value \in TruthyValues
Raised(e) == IsCall(e) /\ e.outcome.kind = "raise"

\* the exceptions of these runs that are instances of Exception
OrdinaryExceptions == {"Exception"}

\* the invocation raised and the wrapper does not catch what it raised
Uncaught(w, e) ==
    Raised(e) /\ (~w.catch_exceptions \/ e.outcome.exc \notin OrdinaryExceptions)

\* the wrapper returned: the truthy result of its last invocation, or a
\* falsy result after limit invocations none of which returned a truthy one
ReturnedAsClaimed(w) ==
    /\ w.outcome.kind = "return"
    /\ IF w.outcome.value \in TruthyValues
       THEN /\ w.trace # <<>>
            /\ w.trace[Len(w.trace)] = Invoked(Ret(w.outcome.value))
       ELSE /\ Cardinality(CallsIn(w.trace)) = w.limit
            /\ \A i \in CallsIn(w.trace) : ~Succeeded(w.trace[i])

\* the wrapper raised what its last invocation raised, which it does not
\* catch
RaisedUncaught(w) ==
    /\ w.outcome.kind = "raise"
    /\ w.trace # <<>>
    /\ w.trace[Len(w.trace)] = Invoked(w.outcome)
\* C21 as stated: the wrapper ends by returning the truthy result or, after
\* limit failed attempts, a falsy one
C21_EndsByReturning == RetryDone => ReturnedAsClaimed(helper)

RetryBounded ==
    RetryRuns =>
        /\ Cardinality(CallsIn(helper.trace)) <= helper.limit
        /\ \A i \in CallsIn(helper.trace) :
              Succeeded(helper.trace[i]) =>
                  \A j \in CallsIn(helper.trace) : j <= i
        /\ helper.pc = "done" =>
              ReturnedAsClaimed(helper) \/ RaisedUncaught(helper)
        /\ helper.limit = 0 =>
              /\ helper.trace = <<>>
              /\ helper.pc = "done" => helper.outcome = Ret(PyFalse)

    /\ helper.trace[3] = Invoked(Raise("CancelledError"))
    /\ helper.outcome = Raise("CancelledError")

\* 2^n for the attempts of these runs
TwoTo(n) == <<2, 4, 8, 16, 32, 64>>[n]

\* C22: the first event of a wrapper call is an invocation, not a wait;
\* every later invocation directly follows a wait; the wait after n
\* invocations is delay * 2^n seconds, so the first wait is twice the delay
\* and each later wait is twice the one before.
C22_BackoffDoubles ==
    RetryRuns =>
        /\ helper.trace # <<>> => IsCall(helper.trace[1])
        /\ \A i \in CallsIn(helper.trace) :
              i > 1 => IsSleep(helper.trace[i - 1])
        /\ \A i \in SleepsIn(helper.trace) :
              /\ helper.trace[i].seconds
                    = helper.delay
                        * TwoTo(Cardinality({j \in CallsIn(helper.trace) : j < i}))
              /\ \A j \in SleepsIn(helper.trace) :
                    (j < i /\ \A k \in SleepsIn(helper.trace) : ~(j < k /\ k < i)) =>
                        helper.trace[i].seconds = 2 * helper.trace[j].seconds

\* C22 witness: with delay 3 the waits were 6 and then 12 seconds
C22_Witness ==
    /\ RetryRuns
    /\ helper.delay = 3
    /\ Len(helper.trace) >= 5
    /\ helper.trace[2] = Slept(6)
    /\ helper.trace[4] = Slept(12)

\* C23 as stated: with catch_exceptions true the wrapper never raises, and
\* an invocation that raised is followed by another unless it was the
\* limit-th; with catch_exceptions false an invocation that raised is the
\* last event, and the wrapper raises its exception.
C23_NeverPropagatedWhenCatching ==
    RetryRuns =>
        IF helper.catch_exceptions
        THEN /\ helper.outcome.kind # "raise"
             /\ (helper.pc = "done" /\ helper.trace # <<>>
                    /\ Raised(helper.trace[Len(helper.trace)])) =>
                   Cardinality(CallsIn(helper.trace)) = helper.limit
        ELSE \A i \in 1..Len(helper.trace) :
                Raised(helper.trace[i]) =>
                    /\ i = Len(helper.trace)
                    /\ helper.pc = "done"
                    /\ helper.outcome = helper.trace[i].outcome

\* C23: with catch_exceptions true an invocation that raised an instance
\* of Exception is a failed attempt: the wrapper does not raise it, and
\* another invocation follows unless it was the limit-th; an exception
\* that is not an instance of Exception (asyncio.CancelledError), and with
\* catch_exceptions false every exception, ends the run at once: the
\* invocation is the last event and the wrapper raises its exception.  The
\* wrapper raises in no other case.
C23_ExceptionsCaughtOrPropagated ==
    RetryRuns =>
        /\ \A i \in 1..Len(helper.trace) :
              Raised(helper.trace[i]) =>
                  IF Uncaught(helper, helper.trace[i])
                  THEN /\ i = Len(helper.trace)
                       /\ helper.pc = "done"
                       /\ helper.outcome = helper.trace[i].outcome
                  ELSE /\ helper.outcome # helper.trace[i].outcome
                       /\ (helper.pc = "done" /\ i = Len(helper.trace)) =>
                             Cardinality(CallsIn(helper.trace)) = helper.limit
        /\ helper.outcome.kind = "raise" => RaisedUncaught(helper)

\* C23 witness: with catch_exceptions true the first invocation raised,
\* the wrapper waited and invoked again, and returned that result
C23_Witness ==
    /\ RetryDone
    /\ helper.catch_exceptions
    /\ Len(helper.trace) = 3
    /\ Raised(helper.trace[1])
    /\ helper.trace[3] = Invoked(Ret(PyTrue))
    /\ helper.outcome = Ret(PyTrue)


\* the capability is a range controller with an instance and an asset id
\* that starts with "Alexa.AirQuality"
HasAirQualityAsset(cap, asset) ==
    /\ "resources" \in DOMAIN cap
    /\ "friendlyNames" \in DOMAIN cap["resources"]
    /\ \E e \in 1..Len(cap["resources"]["friendlyNames"]) :
          /\ "assetId" \in DOMAIN cap["resources"]["friendlyNames"][e]["value"]
          /\ cap["resources"]["friendlyNames"][e]["value"]["assetId"] = asset
    /\ Len(asset) >= Len(AirQualityPrefix)
    /\ SubSeq(asset, 1, Len(AirQualityPrefix)) = AirQualityPrefix

InstanceRangeController(cap) ==
    /\ cap["interfaceName"] = "Alexa.RangeController"
    /\ "instance" \in DOMAIN cap
    /\ cap["instance"] # ""

\* the entry is the sub-sensor of the capability
SubSensorOf(entry, cap) ==
    /\ InstanceRangeController(cap)
    /\ entry["instance"] = cap["instance"]
    /\ HasAirQualityAsset(cap, entry["sensorType"])
    /\ entry["unit"] = cap["configuration"]["unitOfMeasure"]

SubSensorsExact(sensors, capabilities) ==
    /\ \A j \in 1..Len(sensors) : \E c \in 1..Len(capabilities) :
          SubSensorOf(sensors[j], capabilities[c])
    /\ \A c \in 1..Len(capabilities) :
          (/\ InstanceRangeController(capabilities[c])
           /\ \E e \in 1..Len(capabilities[c]["resources"]["friendlyNames"]) :
                 HasAirQualityAsset(capabilities[c],
                     capabilities[c]["resources"]["friendlyNames"][e]["value"]["assetId"])) =>
              Cardinality({j \in 1..Len(sensors) :
                              SubSensorOf(sensors[j], capabilities[c])}) = 1

\* C24: the sensors list of an air quality descriptor has exactly one
\* entry {sensorType, instance, unit} for each Alexa.RangeController
\* capability with an instance whose asset id starts with
\* "Alexa.AirQuality", and no entry from a capability of another
\* interface or without an instance.
C24_SubSensorsFromRangeControllers ==
    Returned =>
        \A k \in 1..Len(entities.outcome.value["air_quality"]) :
            SubSensorsExact(
                entities.outcome.value["air_quality"][k]["sensors"],
                Current(entities.outcome.value["air_quality"][k]["appliance_id"])
                    ["capabilities"])

LightFields == {"brightness", "color", "color_temperature"}

\* C25: only descriptors of the air_quality list, and of the temperature
\* list when the appliance is also in air_quality, have a sensors field;
\* only descriptors of the light list have brightness, color or
\* color_temperature.
C25_ExtraFieldsOnlyInTheirLists ==
    Returned =>
        \A c \in Categories : \A k \in 1..Len(entities.outcome.value[c]) :
            /\ "sensors" \in DOMAIN entities.outcome.value[c][k] =>
                  c \in {"air_quality", "temperature"}
            /\ LightFields \cap DOMAIN entities.outcome.value[c][k] # {} =>
                  c = "light"

\* the lists the appliances of the twin graphs belong to, by entityId
TwinLists(entity_id) ==
    CASE entity_id = "twin-contact" -> {"contact_sensor"}
      [] entity_id = "twin-remote" -> {}
      [] entity_id = "twin-temperature" -> {"temperature"}
      [] entity_id = "twin-monitor" -> {"temperature", "air_quality"}
      [] entity_id = "twin-plug" -> {"smart_switch", "contact_sensor"}
      [] entity_id = "device-plain" -> {"contact_sensor"}
      [] entity_id = "device-other" -> {"contact_sensor"}

TwinGraph == \A i \in 1..Len(Graph) : Graph[i] \in TwinPool

\* C27: no list holds two descriptors with the same appliance_id, the
\* temperature list included; and when an applianceId occurs twice in the
\* graph, in one bridge or in two locations, the descriptors are those of
\* the record seen last: they carry its entityId and are in its lists.
C27_OneDescriptorPerAppliance ==
    Returned =>
        /\ \A c \in Categories :
           \A k \in 1..Len(entities.outcome.value[c]) :
           \A j \in 1..Len(entities.outcome.value[c]) :
              entities.outcome.value[c][k]["appliance_id"]
                  = entities.outcome.value[c][j]["appliance_id"] => k = j
        /\ TwinGraph =>
              \A id \in GraphIds : \A c \in Categories :
                 /\ DescriptorIn(c, Current(id))
                       <=> c \in TwinLists(Current(id)["entityId"])
                 /\ \A k \in 1..Len(entities.outcome.value[c]) :
                       entities.outcome.value[c][k]["appliance_id"] = id =>
                          entities.outcome.value[c][k]["id"]
                              = Current(id)["entityId"]

\* C27 witness: the id is first a temperature sensor in one location and
\* then an air quality monitor in another; the temperature list holds one
\* descriptor, the monitor's
C27_Witness ==
    /\ Returned
    /\ Len(network_details.d) = 2
    /\ Len(Graph) = 2
    /\ Graph[1]["entityId"] = "twin-temperature"
    /\ Graph[2]["entityId"] = "twin-monitor"
    /\ Len(entities.outcome.value["temperature"]) = 1
    /\ entities.outcome.value["temperature"][1]["id"] = "twin-monitor"

InBoth(a) == DescriptorIn("light", a) /\ DescriptorIn("smart_switch", a)

\* C28 as stated: no appliance is in both the light list and the
\* smart_switch list.
C28_NeverLightAndSwitch ==
    Returned => \A id \in GraphIds : ~InBoth(Current(id))

\* C28: an appliance is in both the light list and the smart_switch list
\* only when it has the LIGHT type tag next to SMARTPLUG or SWITCH and its
\* customerDefinedDeviceType is not "LIGHT"; an appliance without the
\* LIGHT tag, or redeclared as a light, is never in both.
C28_LightAndSwitchOnlyByLightTag ==
    Returned =>
        \A id \in GraphIds :
            InBoth(Current(id)) =>
                /\ Tagged(Current(id), "LIGHT")
                /\ Tagged(Current(id), "SMARTPLUG") \/ Tagged(Current(id), "SWITCH")
                /\ ~Redeclared(Current(id))

\* C28 witness: a local appliance tagged LIGHT and SMARTPLUG with a usable
\* power state and no override is in both lists
C28_Witness ==
    /\ Returned
    /\ \E id \in GraphIds :
          /\ Tagged(Current(id), "LIGHT")
          /\ Tagged(Current(id), "SMARTPLUG")
          /\ InBoth(Current(id))


---------------------------------------------------------------------------
(* Properties of alarm_just_dismissed *)

AlarmAnswered ==
    /\ helper # Idle /\ helper.function = "alarm_just_dismissed"
    /\ helper.outcome # Idle

\* the numbers that the versions of these runs stand for; "x" stands for
\* none
NumberOfVersion ==
    (PyStr(<<"1">>) :> 1) @@ (PyStr(<<"2">>) :> 2) @@ (PyStr(<<"3">>) :> 3)
    @@ (PyStr(<<"4">>) :> 4) @@ (PyStr(<<"5">>) :> 5)
    @@ (PyStr(<<"0", "3">>) :> 3) @@ (PyStr(<<"1", "0">>) :> 10)
    @@ (PyStr(<<"+", "2">>) :> 2) @@ (PyStr(<<" ", "2">>) :> 2)
    @@ (PyStr(<<"-", "1">>) :> -1) @@ (PyStr(<<"", "3">>) :> 3)
    @@ (PyStr(<<"4", " ">>) :> 4) @@ (PyStr(<<"", "1">>) :> 1)

\* the version of the alarm is the previous version plus one, as numbers
VersionUpByOne ==
    /\ "version" \in DOMAIN helper.alarm.d
    /\ helper.alarm.d["version"] \in DOMAIN NumberOfVersion
    /\ helper.previous_version \in DOMAIN NumberOfVersion
    /\ NumberOfVersion[helper.alarm.d["version"]]
          = NumberOfVersion[helper.previous_version] + 1

\* C26: alarm_just_dismissed returns True only when the previous status was
\* SNOOZED or ON, a previous version exists, the alarm is not empty and
\* has status OFF or ON, and the version of the alarm is exactly the
\* previous version plus one; every other version change yields False.
C26_DismissedOnlyWhenVersionUpByOne ==
    AlarmAnswered /\ helper.outcome = Ret(PyTrue) =>
        /\ helper.previous_status \in {PyStr("SNOOZED"), PyStr("ON")}
        /\ helper.previous_version # PyNone
        /\ ~alarm_is_empty(helper.alarm)
        /\ Get(helper.alarm.d, "status") \in {PyStr("OFF"), PyStr("ON")}
        /\ VersionUpByOne


---------------------------------------------------------------------------
(* Properties of _catch_login_errors *)

CatchDone == CatchRuns /\ helper.pc = "done"
InTrace(event) == \E i \in 1..Len(helper.trace) : helper.trace[i] = event
EventsFired ==
    Cardinality({i \in 1..Len(helper.trace) :
                    helper.trace[i] = "alexa_media_relogin_required"})

\* C29: when the wrapped call raises AlexapyLoginError the wrapper returns
\* None and propagates nothing; it fires alexa_media_relogin_required at
\* most once, and only with a login located, test_loggedin() answered
\* false, and hass, email and login.status all set; it fires nothing when
\* test_loggedin() succeeds.  When the call raises
\* AlexapyLoginCloseRequested it returns None without re-login check and
\* without event.
C29_LoginErrorsEndInNone ==
    CatchDone =>
        /\ helper.raised = "AlexapyLoginError" =>
              /\ helper.outcome = Ret(PyNone)
              /\ EventsFired <= 1
              /\ EventsFired = 1 =>
                    /\ bool(helper.login)
                    /\ InTrace("test_loggedin: False")
                    /\ bool(helper.hass)
                    /\ Truthy(helper.email)
                    /\ DOMAIN helper.login.status # {}
              /\ InTrace("test_loggedin: True") => EventsFired = 0
        /\ helper.raised = "AlexapyLoginCloseRequested" =>
              /\ helper.outcome = Ret(PyNone)
              /\ ~InTrace("test_loggedin: True")
              /\ ~InTrace("test_loggedin: False")
              /\ EventsFired = 0


---------------------------------------------------------------------------
(* The snapshot under the resolver and the sensors *)

\* C30: the resolver and the sensor accessors built on it (__init__, is_on,
\* assumed_state, _handle_coordinator_update) never modify the
\* coordinator's snapshot: every step in which the entity, its is_on, the
\* call it ran or a resolver call changes leaves the entity keys, the
\* order of the records and the records of the snapshot as they were; the
\* snapshot changes only by the coordinator publishing a new one.
C30_SnapshotNeverModified ==
    [][(\/ last_call' # last_call
        \/ attr_is_on' # attr_is_on
        \/ last_reading' # last_reading
        \/ sensor' # sensor
        \/ query' # query
        \/ result' # result) => coordinator_data' = coordinator_data]_vars

\* C30 witness: the resolver was called with a cutoff on a snapshot of two
\* records, passed over the first, accepted the sample time of the second
\* and returned its value, and the snapshot holds the two records whole
C30_Witness ==
    /\ sensor = Idle /\ query # Idle
    /\ query.entity_id = "E1"
    /\ query.since = PyDatetime(AtExample)
    /\ result = Ret(PyStr("ON"))
    /\ coordinator_data
          = DictData([e \in {"E1"} |->
                        <<Range("1"),
                          With(PowerOn, "timeOfSample", PyStr(TsExample))>>])

=============================================================================
